---- MODULE Spec2Model ----
(***************************************************************************)
(* Postfix MX smart router: the weighted round-robin scheduler (class      *)
(* Servers), the sender rule table (Config.test_domain_rules), the MX      *)
(* cache (get_mx_records) and the request path (process_request,           *)
(* get_next_server, process_request_email) of postfix-mx-smart-router.py.  *)
(*                                                                         *)
(* Representation.                                                         *)
(*  - Text that the code searches or parses (requests, emails, domains, MX *)
(*    hostnames, rule keys) is a sequence of one-character strings.        *)
(*  - Identifiers that the code only compares for equality (server names,  *)
(*    group names, rule targets, addresses) are atomic strings; the empty  *)
(*    string stands for Python's False (both are falsy, and neither equals *)
(*    a name).                                                             *)
(*  - perc_target and perc_current are Python floats obtained by ONE       *)
(*    correctly rounded division of two integers.  They are kept as the    *)
(*    pair <<numerator, denominator>> and compared by cross               *)
(*    multiplication.  Rounding is monotone and two fractions of integers  *)
(*    below 2^26 that differ, differ by more than one ulp, so the float    *)
(*    comparison and the exact comparison agree for every count modelled   *)
(*    here (and for the 120,000 selections of the weighted example).       *)
(*  - List indices are Python's (0-based, negative indices count from the  *)
(*    end); sequences are TLA+'s (1-based).                                *)
(***************************************************************************)
EXTENDS Integers, Sequences, FiniteSets, TLC

VARIABLES
    config_dict,    \* Config.config_dict: the parsed YAML configuration
    servers_obj,    \* Config.servers_obj: the registry of all servers
    server_groups,  \* Config.server_groups: group name -> registry
    mx_cache,       \* module global mx_cache: the entries domain -> (cache_time, mx_records)
    cache_ttl,      \* args.cache_ttl
    now,            \* time.time(), in whole seconds
    last_request,   \* what the last handled request did (request, response, resolver use)
    last_get_next,  \* what the last Servers.get_next call did (identifier, result)
    last_rules_test, \* what the last Config.test_domain_rules call did
    workers,        \* the connection threads inside Servers.get_next: position and locals
    service         \* main(): "loading" before config.load, "serving" after it, "crashed"

vars == <<config_dict, servers_obj, server_groups, mx_cache, cache_ttl, now,
          last_request, last_get_next, last_rules_test, workers, service>>

-----------------------------------------------------------------------------
(* Bounds of the model *)

\* largest number of selections made on one registry in the scheduler runs
MaxSent == 7

\* largest number of selections in a run of unpinned selections only
MaxRun == 12

\* largest number of selections made by the requests of the service, all registries together
MaxMails == 2

\* the clock of the service runs from 0 to MaxTime
MaxTime == 1

\* the cache TTL of the runs with caching enabled
CacheTtl == 1

\* the cache TTL of the runs of the cache, and the last second of their clock
LongTtl == 2
MaxClock == 2

\* the connection threads that call get_next concurrently
MaxThreads == 2

\* the calls of get_next each connection thread makes
MaxCalls == 2

\* the connections open at the same time
MaxConns == 2

\* the mails a server may have been sent by name before an endless run starts
MaxLead == 2

-----------------------------------------------------------------------------
(* Python helpers *)

\* Python's False / empty identifier
PyFalse == ""

\* a / b < c / d for the floats a/b and c/d (b, d > 0)
Less(x, y) == x[1] * y[2] < y[1] * x[2]

-----------------------------------------------------------------------------
(* class Server, class Servers *)

\* value.perc, defaulting to 100 when the configuration gives none
perc(value) == IF "perc" \in DOMAIN value THEN value.perc ELSE 100

RECURSIVE percent_sum(_)
percent_sum(server_list) ==
    IF server_list = <<>> THEN 0
    ELSE perc(Head(server_list).value) + percent_sum(Tail(server_list))

Server(name, address, perc_target) ==
    [name |-> name, address |-> address, percent |-> perc_target,
     perc_target |-> <<0, 1>>, perc_current |-> <<0, 1>>, mails_sent |-> 0]

\* Servers.__init__ raises ZeroDivisionError: servers present, percentages sum to 0
Servers_init_raises(server_list) ==
    Len(server_list) > 0 /\ percent_sum(server_list) = 0

\* (mutant) the share is taken as a percentage of 100, not of the sum of the
\* shares of the registry
Servers_init_of_hundred(server_list) ==
    [servers |->
        [i \in 1..Len(server_list) |->
            [Server(server_list[i].name, server_list[i].value.address,
                    perc(server_list[i].value))
             EXCEPT !.perc_target = <<perc(server_list[i].value), 100>>]],
     current |-> -1]

\* Servers.__init__: server_list is the sequence of <<attr, value>> of the
\* configuration object, in declaration order
Servers_init(server_list) ==
    [servers |->
        [i \in 1..Len(server_list) |->
            [Server(server_list[i].name, server_list[i].value.address,
                    perc(server_list[i].value))
             EXCEPT !.perc_target = <<perc(server_list[i].value),
                                      percent_sum(server_list)>>]],
     current |-> -1]

RECURSIVE total_mails(_)
total_mails(servers) ==
    IF servers = <<>> THEN 0
    ELSE Head(servers).mails_sent + total_mails(Tail(servers))

\* Servers.calc_perc: the servers with perc_current refreshed
calc_perc(servers) ==
    IF total_mails(servers) > 0
    THEN [i \in 1..Len(servers) |->
            [servers[i] EXCEPT !.perc_current =
                <<servers[i].mails_sent, total_mails(servers)>>]]
    ELSE servers

\* Servers.get: the (0-based) index of the first server called name, -1 for False
RECURSIVE get_from(_, _, _)
get_from(servers, name, i) ==
    IF i >= Len(servers) THEN -1
    ELSE IF name = servers[i + 1].name THEN i
    ELSE get_from(servers, name, i + 1)

\* (mutant) the lookup by name never finds a server
get_never(servers, name) == -1

get(servers, name) == get_from(servers, name, 0)

\* (mutant) a server exactly at its target counts as below it
eligible_or_equal(servers, current) ==
    ~ Less(servers[current + 1].perc_target, servers[current + 1].perc_current)

\* the test of the scan: is the server at index current below its target
eligible(servers, current) ==
    Less(servers[current + 1].perc_current, servers[current + 1].perc_target)

\* the while loop of Servers.get_next, from the local variables (current, iteration)
RECURSIVE scan(_, _, _)
scan(servers, current, iteration) ==
    IF iteration < Len(servers)
    THEN IF eligible(servers, current)
         THEN [found |-> TRUE, current |-> current, iteration |-> iteration + 1]
         ELSE scan(servers, (current + 1) % Len(servers), iteration + 1)
    ELSE [found |-> FALSE, current |-> current, iteration |-> iteration]

\* (mutant) the cursor is never stored
cursor_stays(self, found) == self.current

\* the cursor after the scan: moved only when a server was found
cursor_after(self, found) ==
    IF found.found THEN found.current ELSE self.current

\* the index of the server the unpinned branch returns: servers[self.current]
chosen_index(self) ==
    IF self.current < 0 THEN Len(self.servers) + self.current ELSE self.current

\* Servers.get_next raises ZeroDivisionError: unpinned selection on an empty registry
get_next_raises(self, mx_identifier) ==
    /\ (mx_identifier = PyFalse \/ get(self.servers, mx_identifier) = -1)
    /\ Len(self.servers) = 0

\* Servers.get_next, lines 213-214: the chosen server counts one more mail
get_next_count(self, chosen_server, pinned, found) ==
    [self |-> [self EXCEPT !.servers =
                [i \in 1..Len(self.servers) |->
                    IF i = chosen_server + 1
                    THEN [self.servers[i] EXCEPT !.mails_sent = @ + 1]
                    ELSE self.servers[i]]],
     chosen_server |-> chosen_server, pinned |-> pinned,
     found |-> found.found, iteration |-> found.iteration]

\* Servers.get_next, lines 206-211: the cursor and the server chosen after the scan
get_next_scanned(self, found) ==
    get_next_count([self EXCEPT !.current = cursor_after(self, found)],
                   chosen_index([self EXCEPT !.current = cursor_after(self, found)]),
                   FALSE, found)

\* Servers.get_next, lines 198-210: calc_perc, then the scan from (current + 1) % len
get_next_scan(self) ==
    get_next_scanned(self, scan(self.servers, (self.current + 1) % Len(self.servers), 0))

\* Servers.get_next: the registry after the call, the index of the server
\* returned, and what the scan did
get_next(self, mx_identifier) ==
    IF mx_identifier # PyFalse /\ get(self.servers, mx_identifier) # -1
    THEN get_next_count(self, get(self.servers, mx_identifier), TRUE,
                        [found |-> FALSE, iteration |-> 0])
    ELSE get_next_scan([self EXCEPT !.servers = calc_perc(self.servers)])

-----------------------------------------------------------------------------
(* Text: str.lower, the in operator on strings *)

\* the lower-case letter of each upper-case letter
LowerCase ==
    [A |-> "a", B |-> "b", C |-> "c", D |-> "d", E |-> "e", F |-> "f",
     G |-> "g", H |-> "h", I |-> "i", J |-> "j", K |-> "k", L |-> "l",
     M |-> "m", N |-> "n", O |-> "o", P |-> "p", Q |-> "q", R |-> "r",
     S |-> "s", T |-> "t", U |-> "u", V |-> "v", W |-> "w", X |-> "x",
     Y |-> "y", Z |-> "z"]

lower_char(c) == IF c \in DOMAIN LowerCase THEN LowerCase[c] ELSE c

\* str.lower()
lower(text) == [i \in 1..Len(text) |-> lower_char(text[i])]

\* key in text, for two strings
in(key, text) ==
    \E i \in 0..(Len(text) - Len(key)) : SubSeq(text, i + 1, i + Len(key)) = key

\* the characters str.strip() removes and \s matches
Whitespace == {" ", "\t", "\n", "\r"}

RECURSIVE lstrip(_)
lstrip(text) ==
    IF text # <<>> /\ Head(text) \in Whitespace THEN lstrip(Tail(text)) ELSE text

RECURSIVE rstrip(_, _)
rstrip(text, chars) ==
    IF text # <<>> /\ text[Len(text)] \in chars
    THEN rstrip(SubSeq(text, 1, Len(text) - 1), chars)
    ELSE text

\* str.strip()
strip(text) == rstrip(lstrip(text), Whitespace)

\* str.split(sep) for a one-character separator
RECURSIVE split_from(_, _, _)
split_from(text, sep, part) ==
    IF text = <<>> THEN <<part>>
    ELSE IF Head(text) = sep THEN <<part>> \o split_from(Tail(text), sep, <<>>)
    ELSE split_from(Tail(text), sep, Append(part, Head(text)))

split(text, sep) == split_from(text, sep, <<>>)

\* [^@]+@([^@]+) matches the whole of text
email_shape(text) ==
    /\ Len(split(text, "@")) = 2
    /\ split(text, "@")[1] # <<>>
    /\ split(text, "@")[2] # <<>>

\* the lengths k of a prefix "get" \s+ of request after which the rest has the shape
\* of an email (re.IGNORECASE lets the keyword be in any case)
match_prefixes(request) ==
    {k \in 4..Len(request) :
        /\ lower(SubSeq(request, 1, 3)) = <<"g", "e", "t">>
        /\ \A i \in 4..k : request[i] \in Whitespace
        /\ email_shape(SubSeq(request, k + 1, Len(request)))}

\* re.match(r'^get\s+([^@]+@([^@]+))$', request, re.IGNORECASE): group(1), or the
\* empty text when there is no match (\s+ is greedy: the longest prefix wins)
re_match_email(request) ==
    IF match_prefixes(request) = {} THEN <<>>
    ELSE LET k == CHOOSE k \in match_prefixes(request) :
                     \A j \in match_prefixes(request) : j <= k
         IN  SubSeq(request, k + 1, Len(request))

-----------------------------------------------------------------------------
(* Config.test_domain_rules *)

\* the reserved rule key
Default == <<"d", "e", "f", "a", "u", "l", "t">>

\* (mutant) the rule key is not looked for inside the email
rule_matches_exact_or_mx(rule, email, domain) ==
    \/ email = rule
    \/ in(rule, domain)

\* the three tests made on one rule
rule_matches(rule, email, domain) ==
    \/ email = rule
    \/ in(rule, domain)
    \/ in(rule, email)

\* the for loop over the rules, from the local variable default
RECURSIVE rules_loop(_, _, _, _)
rules_loop(rules, email, domain, default) ==
    IF rules = <<>> THEN [result |-> PyFalse, default |-> default]
    ELSE LET rule  == Head(rules).rule
             value == Head(rules).value
             seen  == IF rule = Default THEN value ELSE default
         IN  IF rule_matches(rule, email, domain)
             THEN [result |-> value, default |-> seen]
             ELSE rules_loop(Tail(rules), email, domain, seen)

\* Config.test_domain_rules: the pair (result, default)
test_domain_rules(sender_rules, email, domain) ==
    LET r == rules_loop(sender_rules, email, domain, PyFalse)
    IN  [result  |-> IF r.result = PyFalse THEN r.default ELSE r.result,
         default |-> r.default]

-----------------------------------------------------------------------------
(* get_mx_records *)

\* the resolver errors get_mx_records catches
CaughtErrors == {"NXDOMAIN", "NoAnswer", "NoNameservers"}

\* mx_cache[domain], for a domain the cache holds
cache_entry(domain) == CHOOSE entry \in mx_cache : entry.domain = domain

\* (mutant) an entry exactly cache_ttl old still counts as valid
cache_hit_inclusive(domain) ==
    /\ cache_ttl > 0
    /\ \E entry \in mx_cache : entry.domain = domain
    /\ now - cache_entry(domain).cache_time <= cache_ttl

\* the cache holds an entry for domain that is younger than cache_ttl
cache_hit(domain) ==
    /\ cache_ttl > 0
    /\ \E entry \in mx_cache : entry.domain = domain
    /\ now - cache_entry(domain).cache_time < cache_ttl

\* mx_cache[domain] = (current_time, mx_records), when caching is enabled
cache_store(domain, mx_records) ==
    IF cache_ttl > 0
    THEN {entry \in mx_cache : entry.domain # domain}
            \cup {[domain |-> domain, cache_time |-> now, mx_records |-> mx_records]}
    ELSE mx_cache

\* answer.exchange.to_text().rstrip('.').lower() for each answer
exchange_names(answers) ==
    [i \in 1..Len(answers) |-> lower(rstrip(answers[i], {"."}))]

\* (mutant) a failure of the resolver is not stored
get_mx_records_no_negative(domain, reply) ==
    IF cache_hit(domain)
    THEN [mx_records |-> cache_entry(domain).mx_records, from_cache |-> TRUE,
          mx_cache |-> mx_cache, resolved |-> FALSE, raised |-> PyFalse]
    ELSE IF reply.kind = "answer"
    THEN [mx_records |-> exchange_names(reply.answers), from_cache |-> FALSE,
          mx_cache |-> cache_store(domain, exchange_names(reply.answers)),
          resolved |-> TRUE, raised |-> PyFalse]
    ELSE [mx_records |-> <<>>, from_cache |-> FALSE, mx_cache |-> mx_cache,
          resolved |-> TRUE,
          raised |-> IF reply.kind \in CaughtErrors THEN PyFalse ELSE reply.kind]

\* get_mx_records(domain, cache_ttl), the resolver answering reply when asked:
\* the records, the from_cache flag, the cache after the call, whether the
\* resolver was asked, and whether the call raised
get_mx_records(domain, reply) ==
    IF cache_hit(domain)
    THEN [mx_records |-> cache_entry(domain).mx_records, from_cache |-> TRUE,
          mx_cache |-> mx_cache, resolved |-> FALSE, raised |-> PyFalse]
    ELSE IF reply.kind = "answer"
    THEN [mx_records |-> exchange_names(reply.answers), from_cache |-> FALSE,
          mx_cache |-> cache_store(domain, exchange_names(reply.answers)),
          resolved |-> TRUE, raised |-> PyFalse]
    ELSE IF reply.kind \in CaughtErrors
    THEN [mx_records |-> <<>>, from_cache |-> FALSE,
          mx_cache |-> cache_store(domain, <<>>),
          resolved |-> TRUE, raised |-> PyFalse]
    ELSE [mx_records |-> <<>>, from_cache |-> FALSE, mx_cache |-> mx_cache,
          resolved |-> TRUE, raised |-> reply.kind]

-----------------------------------------------------------------------------
(* process_request_email, get_next_server, process_request *)

\* the literal target that asks for no routing
NO_RESULT == "NO RESULT"

\* (mutant) the loop without its break: every hostname is tested
RECURSIVE mx_loop_through(_, _, _, _)
mx_loop_through(sender_rules, email, mx_records, last) ==
    IF mx_records = <<>> THEN last
    ELSE LET t == test_domain_rules(sender_rules, email, Head(mx_records))
         IN  mx_loop_through(sender_rules, email, Tail(mx_records),
                             [mx_server_group |-> t.result, default |-> t.default,
                              tested |-> Append(last.tested, Head(mx_records))])

\* the for loop over mx_records: the pair of the first hostname whose result is
\* truthy, else the pair of the last hostname, else the initial (False, False)
RECURSIVE mx_loop(_, _, _, _)
mx_loop(sender_rules, email, mx_records, last) ==
    IF mx_records = <<>> THEN last
    ELSE LET t    == test_domain_rules(sender_rules, email, Head(mx_records))
             this == [mx_server_group |-> t.result, default |-> t.default,
                      tested |-> Append(last.tested, Head(mx_records))]
         IN  IF t.result # PyFalse THEN this
             ELSE mx_loop(sender_rules, email, Tail(mx_records), this)

\* what process_request_email returns when it tests no rule
no_rules_tested == [mx_server_group |-> PyFalse, default |-> PyFalse, tested |-> <<>>]

\* process_request_email after get_mx_records: the loop over the records, or
\* the exception of the resolver on its way up
process_request_email_records(email, domain, mx) ==
    IF mx.raised # PyFalse
    THEN no_rules_tested @@
         [email |-> email, mx_cache |-> mx.mx_cache, resolved |-> <<domain>>,
          mx_records |-> <<>>, from_cache |-> FALSE, raised |-> mx.raised]
    ELSE mx_loop(config_dict.sender_rules, email, mx.mx_records, no_rules_tested) @@
         [email |-> email, mx_cache |-> mx.mx_cache,
          resolved |-> IF mx.resolved THEN <<domain>> ELSE <<>>,
          mx_records |-> mx.mx_records, from_cache |-> mx.from_cache,
          raised |-> PyFalse]

\* process_request_email when the request did not match, or the email does
\* not split in two parts
process_request_email_unmatched ==
    no_rules_tested @@ [email |-> <<>>, mx_cache |-> mx_cache, resolved |-> <<>>,
                        mx_records |-> <<>>, from_cache |-> FALSE,
                        raised |-> PyFalse]

\* process_request_email after the match: email is group(1).lower()
process_request_email_matched(email, parts, reply) ==
    IF Len(parts) = 2
    THEN process_request_email_records(email, parts[2], get_mx_records(parts[2], reply))
    ELSE process_request_email_unmatched

\* process_request_email(request, cache_ttl): (mx_server_group, default), with
\* what get_mx_records did and the hostnames the rules were tested on
process_request_email(request, reply) ==
    IF re_match_email(request) # <<>>
    THEN process_request_email_matched(lower(re_match_email(request)),
                                       split(lower(re_match_email(request)), "@"),
                                       reply)
    ELSE process_request_email_unmatched

\* the test of get_next_server that answers False
sentinel(mx_identifier, default) ==
    mx_identifier = NO_RESULT /\ (default = NO_RESULT \/ default = PyFalse)

\* Config.get_server_group: the name of the group registry, or the empty
\* identifier for servers_obj
get_server_group(identifier) ==
    IF identifier # PyFalse /\ identifier \in DOMAIN server_groups
    THEN identifier ELSE PyFalse

\* the registry get_server_group returns
registry(group) == IF group = PyFalse THEN servers_obj ELSE server_groups[group]

\* get_next_server when it calls no get_next, or get_next raises
get_next_server_without(e, raised) ==
    [address |-> PyFalse, servers_obj |-> servers_obj,
     server_groups |-> server_groups, call |-> last_get_next,
     email |-> e, raised |-> raised]

\* (mutant) the registries share their Server objects: the mail counts for the
\* chosen server in every registry that holds a server of that name
get_next_server_with_shared(e, group, r) ==
    LET name == r.self.servers[r.chosen_server + 1].name
        counted(self) ==
            [self EXCEPT !.servers =
                [i \in 1..Len(self.servers) |->
                    IF self.servers[i].name = name
                    THEN [self.servers[i] EXCEPT !.mails_sent = @ + 1]
                    ELSE self.servers[i]]]
    IN  [address |-> r.self.servers[r.chosen_server + 1].address,
         servers_obj |-> IF group = PyFalse THEN r.self ELSE counted(servers_obj),
         server_groups |-> [g \in DOMAIN server_groups |->
                               IF g = group THEN r.self
                               ELSE counted(server_groups[g])],
         call |-> [mx_identifier |-> e.mx_server_group,
                   chosen_server |-> r.chosen_server, pinned |-> r.pinned,
                   found |-> r.found, iteration |-> r.iteration],
         email |-> e, raised |-> PyFalse]

\* get_next_server after servers_obj.get_next(mx_identifier) returned r
get_next_server_with(e, group, r) ==
    [address |-> r.self.servers[r.chosen_server + 1].address,
     servers_obj |-> IF group = PyFalse THEN r.self ELSE servers_obj,
     server_groups |-> IF group = PyFalse THEN server_groups
                       ELSE [server_groups EXCEPT ![group] = r.self],
     call |-> [mx_identifier |-> e.mx_server_group,
               chosen_server |-> r.chosen_server, pinned |-> r.pinned,
               found |-> r.found, iteration |-> r.iteration],
     email |-> e, raised |-> PyFalse]

\* get_next_server after process_request_email returned e
get_next_server_decide(e) ==
    IF e.raised # PyFalse THEN get_next_server_without(e, e.raised)
    ELSE IF sentinel(e.mx_server_group, e.default)
    THEN get_next_server_without(e, PyFalse)
    ELSE IF get_next_raises(registry(get_server_group(e.mx_server_group)),
                            e.mx_server_group)
    THEN get_next_server_without(e, "ZeroDivisionError")
    ELSE get_next_server_with(e, get_server_group(e.mx_server_group),
                              get_next(registry(get_server_group(e.mx_server_group)),
                                       e.mx_server_group))

\* get_next_server(request, cache_ttl): the address returned (empty for False),
\* the registries and the cache after the call
get_next_server(request, reply) ==
    get_next_server_decide(process_request_email(request, reply))

\* process_request when it does not reach get_next_server: 500 NO RESULT
process_request_no_result ==
    [status |-> 500, message |-> NO_RESULT, servers_obj |-> servers_obj,
     server_groups |-> server_groups, mx_cache |-> mx_cache,
     call |-> last_get_next, resolved |-> <<>>, mx_records |-> <<>>,
     from_cache |-> FALSE, tested |-> <<>>, email |-> <<>>,
     mx_identifier |-> PyFalse, default |-> PyFalse, closed |-> FALSE]

\* the response process_request (or the except clause of handle_client) sends
\* after get_next_server returned r
process_request_respond(r) ==
    [status  |-> IF r.raised # PyFalse THEN 400
                 ELSE IF r.address # PyFalse THEN 200 ELSE 500,
     message |-> IF r.raised # PyFalse THEN r.raised
                 ELSE IF r.address # PyFalse THEN r.address ELSE NO_RESULT,
     servers_obj |-> r.servers_obj, server_groups |-> r.server_groups,
     mx_cache |-> r.email.mx_cache, call |-> r.call,
     resolved |-> r.email.resolved, mx_records |-> r.email.mx_records,
     from_cache |-> r.email.from_cache, tested |-> r.email.tested,
     email |-> r.email.email, mx_identifier |-> r.email.mx_server_group,
     default |-> r.email.default, closed |-> r.raised # PyFalse]

\* (mutant) the probe request is processed like any other request
process_request_unprobed(request, reply) ==
    IF Len(servers_obj.servers) > 0
    THEN process_request_respond(get_next_server(request, reply))
    ELSE process_request_no_result

\* process_request(request, conn, config, cache_ttl) inside the try of
\* handle_client: the response sent and the state after the request
process_request(request, reply) ==
    IF request = <<"g", "e", "t", " ", "*">> THEN process_request_no_result
    ELSE IF Len(servers_obj.servers) > 0
    THEN process_request_respond(get_next_server(request, reply))
    ELSE process_request_no_result

-----------------------------------------------------------------------------
(* Configurations *)

ServerNames == <<"mx1", "mx2", "mx3", "mx4">>

\* the transport address configured for a server
AddressOf(name) == "relay:" \o name

\* servers.names of a configuration that gives server i the percentage shares[i]
NamesWithPerc(shares) ==
    [i \in 1..Len(shares) |->
        [name |-> ServerNames[i],
         value |-> [address |-> AddressOf(ServerNames[i]), perc |-> shares[i]]]]

\* servers.names of a configuration that gives n servers no perc at all
NamesWithoutPerc(n) ==
    [i \in 1..n |->
        [name |-> ServerNames[i], value |-> [address |-> AddressOf(ServerNames[i])]]]

\* a configuration with servers only: no group, no sender rule
ServersOnly(names) == [names |-> names, groups |-> <<>>, sender_rules |-> <<>>]

\* the percentages of the registries the scheduler is run on
SchedShares ==
    { <<100>>, <<50, 50>>, <<7, 7, 7>>, <<25, 25, 25, 25>>,
      <<40, 40, 20>>, <<3, 1>>, <<100, 0>>, <<0, 100>>, <<50, 0, 50>>,
      <<10, 30, 0>> }

SchedConfigs ==
    { ServersOnly(NamesWithPerc(shares)) : shares \in SchedShares }
        \cup { ServersOnly(NamesWithoutPerc(2)) }

\* the identifiers get_next is called with: none, a group name, a server name
GroupNames == {"good", "bad"}
Identifiers == {PyFalse} \cup GroupNames
                 \cup {ServerNames[i] : i \in 1..Len(ServerNames)}

NoGroups == [g \in {} |-> 0]
NoRequest == [request |-> <<>>, reply |-> "", status |-> 0, message |-> "", resolved |-> <<>>,
              mx_records |-> <<>>, from_cache |-> FALSE, tested |-> <<>>, email |-> <<>>, mx_identifier |-> PyFalse,
              default |-> PyFalse, closed |-> FALSE]
NoRulesTest == [email |-> <<>>, domain |-> <<>>, result |-> PyFalse, default |-> PyFalse]
\* no connection thread is inside get_next
NoWorkers == [w \in {} |-> 0]
NoCall == [mx_identifier |-> PyFalse, chosen_server |-> -1, pinned |-> FALSE,
           found |-> FALSE, iteration |-> 0]

-----------------------------------------------------------------------------
(* The scheduler on one registry: Servers.get_next called directly *)

InitSched ==
    /\ config_dict \in SchedConfigs
    /\ servers_obj = Servers_init(config_dict.names)
    /\ server_groups = NoGroups
    /\ mx_cache = {}
    /\ cache_ttl = 0
    /\ now = 0
    /\ last_request = NoRequest
    /\ last_get_next = NoCall
    /\ last_rules_test = NoRulesTest
    /\ workers = NoWorkers
    /\ service = "serving"

\* one call servers_obj.get_next(mx_identifier), while fewer than limit were made
GetNext(mx_identifier, limit) ==
    /\ total_mails(servers_obj.servers) < limit
    /\ ~ get_next_raises(servers_obj, mx_identifier)
    /\ LET r == get_next(servers_obj, mx_identifier)
       IN  /\ servers_obj' = r.self
           /\ last_get_next' = [mx_identifier |-> mx_identifier,
                                chosen_server |-> r.chosen_server,
                                pinned |-> r.pinned, found |-> r.found,
                                iteration |-> r.iteration]
    /\ UNCHANGED <<config_dict, server_groups, mx_cache, cache_ttl, now, last_request,
                   last_rules_test, workers, service>>

\* a call whose identifier names a server of the registry
Pinned ==
    \E mx_identifier \in Identifiers :
        /\ mx_identifier # PyFalse
        /\ get(servers_obj.servers, mx_identifier) # -1
        /\ GetNext(mx_identifier, MaxSent)

\* a call whose identifier is absent or names no server of the registry
Unpinned ==
    \E mx_identifier \in Identifiers :
        /\ (mx_identifier = PyFalse \/ get(servers_obj.servers, mx_identifier) = -1)
        /\ GetNext(mx_identifier, MaxSent)

NextSched == Pinned \/ Unpinned

SpecSched == InitSched /\ [][NextSched]_vars

\* runs of unpinned selections only, as Config.test makes them
UnpinnedRun ==
    \E mx_identifier \in {PyFalse} \cup GroupNames : GetNext(mx_identifier, MaxRun)

SpecUnpinned == InitSched /\ [][UnpinnedRun]_vars

\* the registry of the weighted example: mx1 40, mx2 40, mx3 20
InitWeighted ==
    /\ InitSched
    /\ config_dict = ServersOnly(NamesWithPerc(<<40, 40, 20>>))

\* Config.test: get_next() over and over
TestRun == GetNext(PyFalse, 120000)

SpecWeighted == InitWeighted /\ [][TestRun]_vars

-----------------------------------------------------------------------------
(* Rule tables, emails and MX hostnames the rule table is run on *)

\* default: NO RESULT / ex.co: good
RulesExample ==
    <<[rule |-> <<"d", "e", "f", "a", "u", "l", "t">>, value |-> "NO RESULT"],
       [rule |-> <<"e", "x", ".", "c", "o">>, value |-> "good"]>>

\* default: good / sp.am: NO RESULT / u@ex.co: mx3
RulesGroupDefault ==
    <<[rule |-> <<"d", "e", "f", "a", "u", "l", "t">>, value |-> "good"],
       [rule |-> <<"s", "p", ".", "a", "m">>, value |-> "NO RESULT"],
       [rule |-> <<"u", "@", "e", "x", ".", "c", "o">>, value |-> "mx3"]>>

\* ex.co: bad / vip: mx1 / sp.am: NO RESULT
RulesNoDefault ==
    <<[rule |-> <<"e", "x", ".", "c", "o">>, value |-> "bad"],
       [rule |-> <<"v", "i", "p">>, value |-> "mx1"],
       [rule |-> <<"s", "p", ".", "a", "m">>, value |-> "NO RESULT"]>>

\* default: bad / mx.: good / ex.co: mx1
RulesOverlap ==
    <<[rule |-> <<"d", "e", "f", "a", "u", "l", "t">>, value |-> "bad"],
       [rule |-> <<"m", "x", ".">>, value |-> "good"],
       [rule |-> <<"e", "x", ".", "c", "o">>, value |-> "mx1"]>>

\* ex.co: good / default: bad
RulesDefaultLast ==
    <<[rule |-> <<"e", "x", ".", "c", "o">>, value |-> "good"],
       [rule |-> <<"d", "e", "f", "a", "u", "l", "t">>, value |-> "bad"]>>

\* vip.: mx1 / mail.: bad
RulesHostOrder ==
    <<[rule |-> <<"v", "i", "p", ".">>, value |-> "mx1"],
       [rule |-> <<"m", "a", "i", "l", ".">>, value |-> "bad"]>>

RuleTables ==
    {RulesExample, RulesGroupDefault, RulesNoDefault, RulesOverlap,
     RulesDefaultLast, RulesHostOrder, <<>>}

Emails ==
    {<<"u", "@", "e", "x", ".", "c", "o">>,
     <<"v", "@", "o", "t", ".", "i", "o">>,
     <<"w", "@", "s", "p", ".", "a", "m">>,
     <<"v", "i", "p", "@", "o", "t", ".", "i", "o">>,
     <<"u", "@", "n", "o", ".", "m", "x">>}

MxHostnames ==
    {<<"m", "x", ".", "e", "x", ".", "c", "o">>,
     <<"m", "a", "i", "l", ".", "o", "t", ".", "i", "o">>,
     <<"m", "x", ".", "s", "p", ".", "a", "m">>,
     <<"a", ".", "v", "i", "p", ".", "i", "o">>,
     <<"i", "n", ".", "e", "x", ".", "c", "o">>,
     <<"d", "e", "f", "a", "u", "l", "t", ".", "i", "o">>}

\* the servers and groups of the sample configuration: good = mx1, mx2; bad = mx2, mx3
SampleNames == NamesWithPerc(<<40, 40, 20>>)
SampleGroups ==
    <<[name |-> "good", members |-> <<"mx1", "mx2">>],
      [name |-> "bad", members |-> <<"mx2", "mx3">>]>>

RuleConfigs ==
    { [names |-> SampleNames, groups |-> SampleGroups, sender_rules |-> rules] :
        rules \in RuleTables }

\* the configurations the service is run with
ServiceConfigs ==
    { [names |-> SampleNames, groups |-> SampleGroups, sender_rules |-> rules] :
        rules \in {RulesExample, RulesGroupDefault, RulesNoDefault, RulesOverlap,
                   RulesHostOrder} }

-----------------------------------------------------------------------------
(* The rule table alone: Config.test_domain_rules called directly *)

InitRules ==
    /\ config_dict \in RuleConfigs
    /\ servers_obj = Servers_init(config_dict.names)
    /\ server_groups = NoGroups
    /\ mx_cache = {}
    /\ cache_ttl = 0
    /\ now = 0
    /\ last_request = NoRequest
    /\ last_get_next = NoCall
    /\ last_rules_test = NoRulesTest
    /\ workers = NoWorkers
    /\ service = "serving"

\* one call config.test_domain_rules(email, domain)
TestDomainRules ==
    \E email \in Emails, domain \in MxHostnames :
        /\ last_rules_test' =
              [email |-> email, domain |-> domain,
               result |-> test_domain_rules(config_dict.sender_rules, email, domain).result,
               default |-> test_domain_rules(config_dict.sender_rules, email, domain).default]
        /\ UNCHANGED <<config_dict, servers_obj, server_groups, mx_cache, cache_ttl,
                       now, last_request, last_get_next, workers, service>>

SpecRules == InitRules /\ [][TestDomainRules]_vars

-----------------------------------------------------------------------------
(* The service: Config.load, then requests handled one at a time *)

\* getattr(self.config.servers.names, server_name)
names_value(names, server_name) ==
    names[CHOOSE i \in 1..Len(names) : names[i].name = server_name].value

\* the object Servers is built from for one group
server_group_dict(names, members) ==
    [i \in 1..Len(members) |->
        [name |-> members[i], value |-> names_value(names, members[i])]]

\* Config.load: the registry of each group declared after servers.names
load_server_groups(cfg) ==
    [g \in {cfg.groups[i].name : i \in 1..Len(cfg.groups)} |->
        LET i == CHOOSE i \in 1..Len(cfg.groups) : cfg.groups[i].name = g
        IN  Servers_init(server_group_dict(cfg.names, cfg.groups[i].members))]

\* the lines received from postfix
Requests ==
    {<<"G", "E", "T", " ", " ", "U", "@", "E", "x", ".", "C", "o", "\n">>,
     <<"g", "e", "t", " ", "v", "@", "o", "t", ".", "i", "o">>,
     <<"g", "e", "t", " ", "w", "@", "s", "p", ".", "a", "m">>,
     <<"g", "e", "t", " ", "u", "@", "n", "o", ".", "m", "x">>,
     <<"g", "e", "t", " ", "*">>,
     <<"u", "@", "e", "x", ".", "c", "o">>,
     <<"g", "e", "t", " ", "a", "@", "b", "@", "c">>,
     <<"g", "e", "t", " ", "n", "o", "b", "o", "d", "y">>}

\* what the resolver answers for a domain when it works: the MX exchanges, or NXDOMAIN
Zone(domain) ==
    IF domain = <<"e", "x", ".", "c", "o">>
        THEN [kind |-> "answer", answers |-> <<<<"M", "X", ".", "e", "x", ".", "c", "o", ".">>>>]
    ELSE IF domain = <<"o", "t", ".", "i", "o">>
        THEN [kind |-> "answer", answers |-> <<<<"m", "a", "i", "l", ".", "o", "t", ".", "i", "o", ".">>, <<"a", ".", "v", "i", "p", ".", "i", "o", ".">>>>]
    ELSE IF domain = <<"s", "p", ".", "a", "m">>
        THEN [kind |-> "answer", answers |-> <<<<"m", "x", ".", "s", "p", ".", "a", "m", ".">>>>]
    ELSE [kind |-> "NXDOMAIN"]

\* what dns.resolver.resolve may do for a domain: answer from the zone, or fail
Replies(domain) ==
    {Zone(domain)} \cup
        {[kind |-> k] : k \in {"NoNameservers", "LifetimeTimeout"}}

\* the replies a request can meet: those of its domain, one for a request
\* that has none
RepliesFor(request) ==
    IF re_match_email(request) # <<>>
    THEN Replies(split(lower(re_match_email(request)), "@")[2])
    ELSE {[kind |-> "NXDOMAIN"]}

\* the mails counted by all registries together
AllMails ==
    total_mails(servers_obj.servers)
        + total_mails(server_groups["good"].servers)
        + total_mails(server_groups["bad"].servers)

Init ==
    /\ config_dict \in ServiceConfigs
    /\ servers_obj = Servers_init(config_dict.names)
    /\ server_groups = load_server_groups(config_dict)
    /\ mx_cache = {}
    /\ cache_ttl \in {0, CacheTtl}
    /\ now = 0
    /\ last_request = NoRequest
    /\ last_get_next = NoCall
    /\ last_rules_test = NoRulesTest
    /\ workers = NoWorkers
    /\ service = "serving"

\* handle_client, one turn of its loop: a line is received, stripped and
\* processed, and the response is sent
Request ==
    /\ service = "serving"
    /\ AllMails < MaxMails
    /\ \E data \in Requests : \E reply \in RepliesFor(strip(data)) :
        \E r \in {process_request(strip(data), reply)} :
            /\ servers_obj' = r.servers_obj
            /\ server_groups' = r.server_groups
            /\ mx_cache' = r.mx_cache
            /\ last_get_next' = r.call
            /\ last_request' = [request |-> strip(data),
                                reply |-> IF r.resolved # <<>> THEN reply.kind ELSE "",
                                status |-> r.status,
                                message |-> r.message, resolved |-> r.resolved,
                                mx_records |-> r.mx_records,
                                from_cache |-> r.from_cache,
                                tested |-> r.tested, email |-> r.email,
                                mx_identifier |-> r.mx_identifier,
                                default |-> r.default, closed |-> r.closed]
            /\ UNCHANGED <<config_dict, cache_ttl, now, last_rules_test, workers,
                           service>>

\* time passes
Tick ==
    /\ now < MaxTime
    /\ now' = now + 1
    /\ UNCHANGED <<config_dict, servers_obj, server_groups, mx_cache, cache_ttl,
                   last_request, last_get_next, last_rules_test, workers, service>>

Next == Request \/ Tick

Spec == Init /\ [][Next]_vars


-----------------------------------------------------------------------------
(* The cache over its TTL: the service with a TTL of LongTtl seconds and a   *)
(* clock that runs past it                                                   *)

\* the configurations of the runs of the cache
CacheConfigs ==
    { [names |-> SampleNames, groups |-> SampleGroups, sender_rules |-> rules] :
        rules \in {RulesNoDefault} }

InitCache ==
    /\ config_dict \in CacheConfigs
    /\ servers_obj = Servers_init(config_dict.names)
    /\ server_groups = load_server_groups(config_dict)
    /\ mx_cache = {}
    /\ cache_ttl = LongTtl
    /\ now = 0
    /\ last_request = NoRequest
    /\ last_get_next = NoCall
    /\ last_rules_test = NoRulesTest
    /\ workers = NoWorkers
    /\ service = "serving"

\* time passes, up to MaxClock
TickCache ==
    /\ now < MaxClock
    /\ now' = now + 1
    /\ UNCHANGED <<config_dict, servers_obj, server_groups, mx_cache, cache_ttl,
                   last_request, last_get_next, last_rules_test, workers, service>>

NextCache == Request \/ TickCache

SpecCache == InitCache /\ [][NextCache]_vars

-----------------------------------------------------------------------------
(* Connection threads: handle_client runs in one thread per connection, and  *)
(* every thread calls get_next on the shared registries without any lock.   *)
(* A thread can be suspended between the statements of get_next; the steps  *)
(* below are runs of statements, each run taken as a whole.                 *)

Threads == 1..MaxThreads

\* the registries the threads share
ThreadConfigs ==
    { ServersOnly(NamesWithPerc(shares)) : shares \in {<<50, 50>>, <<40, 40, 20>>} }

\* a thread outside get_next that has completed calls calls
Idle(calls) ==
    [pc |-> "idle", mx_identifier |-> PyFalse, pinned |-> FALSE, current |-> -1,
     chosen_server |-> -1, loaded |-> 0, calls |-> calls]

InitThreads ==
    /\ config_dict \in ThreadConfigs
    /\ servers_obj = Servers_init(config_dict.names)
    /\ server_groups = NoGroups
    /\ mx_cache = {}
    /\ cache_ttl = 0
    /\ now = 0
    /\ last_request = NoRequest
    /\ last_get_next = NoCall
    /\ last_rules_test = NoRulesTest
    /\ workers = [w \in Threads |-> Idle(0)]
    /\ service = "serving"

\* what a step of a thread leaves alone besides the registry and the threads
ThreadFrame ==
    UNCHANGED <<config_dict, server_groups, mx_cache, cache_ttl, now, last_request,
                last_get_next, last_rules_test, service>>

\* lines 190-194: the thread enters get_next and looks the identifier up
Enter(w) ==
    /\ workers[w].pc = "idle"
    /\ workers[w].calls < MaxCalls
    /\ \E mx_identifier \in {PyFalse, "mx1", "good"} :
          LET chosen_server == IF mx_identifier = PyFalse THEN -1
                               ELSE get(servers_obj.servers, mx_identifier)
          IN  workers' = [workers EXCEPT ![w] =
                  [@ EXCEPT !.pc = IF chosen_server = -1 THEN "current" ELSE "count",
                            !.mx_identifier = mx_identifier,
                            !.pinned = chosen_server # -1,
                            !.chosen_server = chosen_server]]
    /\ UNCHANGED servers_obj
    /\ ThreadFrame

\* line 198: current = (self.current + 1) % len(self.servers)
ReadCursor(w) ==
    /\ workers[w].pc = "current"
    /\ workers' = [workers EXCEPT ![w] =
          [@ EXCEPT !.pc = "calc_perc",
                    !.current = (servers_obj.current + 1) % Len(servers_obj.servers)]]
    /\ UNCHANGED servers_obj
    /\ ThreadFrame

\* line 199: self.calc_perc()
CalcPerc(w) ==
    /\ workers[w].pc = "calc_perc"
    /\ servers_obj' = [servers_obj EXCEPT !.servers = calc_perc(servers_obj.servers)]
    /\ workers' = [workers EXCEPT ![w] = [@ EXCEPT !.pc = "scan"]]
    /\ ThreadFrame

\* lines 201-210: the while loop, which stores the cursor when it finds a server
Scan(w) ==
    /\ workers[w].pc = "scan"
    /\ servers_obj' =
          [servers_obj EXCEPT !.current =
              cursor_after(servers_obj, scan(servers_obj.servers, workers[w].current, 0))]
    /\ workers' = [workers EXCEPT ![w] = [@ EXCEPT !.pc = "chosen"]]
    /\ ThreadFrame

\* line 211: chosen_server = self.servers[self.current]
Chosen(w) ==
    /\ workers[w].pc = "chosen"
    /\ workers' = [workers EXCEPT ![w] =
          [@ EXCEPT !.pc = "count", !.chosen_server = chosen_index(servers_obj)]]
    /\ UNCHANGED servers_obj
    /\ ThreadFrame

\* line 213, first half: the thread reads chosen_server.mails_sent
LoadCount(w) ==
    /\ workers[w].pc = "count"
    /\ workers' = [workers EXCEPT ![w] =
          [@ EXCEPT !.pc = "store",
                    !.loaded = servers_obj.servers[workers[w].chosen_server + 1].mails_sent]]
    /\ UNCHANGED servers_obj
    /\ ThreadFrame

\* line 213, second half: the thread stores the count it read, plus one, and returns
StoreCount(w) ==
    /\ workers[w].pc = "store"
    /\ servers_obj' =
          [servers_obj EXCEPT !.servers =
              [i \in 1..Len(servers_obj.servers) |->
                  IF i = workers[w].chosen_server + 1
                  THEN [servers_obj.servers[i] EXCEPT !.mails_sent = workers[w].loaded + 1]
                  ELSE servers_obj.servers[i]]]
    /\ workers' = [workers EXCEPT ![w] = Idle(workers[w].calls + 1)]
    /\ ThreadFrame

NextThreads ==
    \E w \in Threads :
        \/ Enter(w)
        \/ ReadCursor(w)
        \/ CalcPerc(w)
        \/ Scan(w)
        \/ Chosen(w)
        \/ LoadCount(w)
        \/ StoreCount(w)

SpecThreads == InitThreads /\ [][NextThreads]_vars

-----------------------------------------------------------------------------
(* Properties of the scheduler *)

\* the registry's size, total count and sum of shares
Size == Len(servers_obj.servers)
Total == total_mails(servers_obj.servers)
ShareSum == percent_sum(config_dict.names)

\* server i (0-based) is below its target as the specification states it:
\* sentCount / total < share / sum of shares, the left side being 0 when total is 0
BelowTarget(i) ==
    LET s == servers_obj.servers[i + 1]
    IN  IF Total = 0 THEN 0 < s.percent
        ELSE s.mails_sent * ShareSum < s.percent * Total

\* the first index below target met from (lastChosenIndex + 1) mod size
FirstBelowTarget ==
    LET start == (servers_obj.current + 1) % Size
        d == CHOOSE d \in 0..(Size - 1) :
                /\ BelowTarget((start + d) % Size)
                /\ \A e \in 0..(d - 1) : ~ BelowTarget((start + e) % Size)
    IN  (start + d) % Size

\* this step is a get_next call whose identifier names no server of the registry
UnpinnedCall ==
    /\ servers_obj' # servers_obj
    /\ \A i \in 1..Size : servers_obj.servers[i].name # last_get_next'.mx_identifier

\* this step is a get_next call whose identifier names server i (0-based)
PinnedCall(i) ==
    /\ servers_obj' # servers_obj
    /\ servers_obj.servers[i + 1].name = last_get_next'.mx_identifier

\* the counts of all servers but i (0-based) stay as they are
OthersUnchanged(i) ==
    \A j \in 1..Size : j # i + 1 =>
        servers_obj'.servers[j].mails_sent = servers_obj.servers[j].mails_sent

\* C1: an unpinned selection made while some server is below its target
\* returns the first such server met scanning circularly from
\* (lastChosenIndex + 1) mod size, after examining at most size servers.
C1_FirstEligible ==
    [][ (UnpinnedCall /\ \E i \in 0..(Size - 1) : BelowTarget(i))
            => /\ last_get_next'.chosen_server = FirstBelowTarget
               /\ last_get_next'.iteration <= Size
               /\ servers_obj'.servers[FirstBelowTarget + 1].mails_sent
                    = servers_obj.servers[FirstBelowTarget + 1].mails_sent + 1 ]_vars

\* C1 witness: an unpinned selection skipped a server at or above its target
\* and returned a later one
C1_Witness ==
    /\ ~ last_get_next.pinned
    /\ last_get_next.found
    /\ last_get_next.iteration >= 2
    /\ Total >= 3

\* C2: when no server is below its target, the unpinned selection returns
\* the server at (lastChosenIndex + 1) mod size
C2_FallbackPostIncrement ==
    [][ (UnpinnedCall /\ \A i \in 0..(Size - 1) : ~ BelowTarget(i))
            => last_get_next'.chosen_server = (servers_obj.current + 1) % Size ]_vars

\* C3: a selection whose identifier names a server of the registry returns
\* that server, adds exactly 1 to its count and leaves the other counts and
\* the cursor unchanged, whatever its fractions are.
C3_Pinning ==
    [][ \A i \in 0..(Size - 1) : PinnedCall(i)
            => /\ last_get_next'.chosen_server = i
               /\ servers_obj'.servers[i + 1].mails_sent
                    = servers_obj.servers[i + 1].mails_sent + 1
               /\ servers_obj'.servers[i + 1].address
                    = AddressOf(last_get_next'.mx_identifier)
               /\ OthersUnchanged(i)
               /\ servers_obj'.current = servers_obj.current ]_vars

\* C3 witness: a server already above its target was returned by name, the
\* cursor standing on another server
C3_Witness ==
    /\ last_get_next.pinned
    /\ last_get_next.chosen_server # servers_obj.current
    /\ servers_obj.current >= 0
    /\ LET s == servers_obj.servers[last_get_next.chosen_server + 1]
       IN  (s.mails_sent - 1) * ShareSum > s.percent * (Total - 1)

\* all servers have the same share, and it is positive
EqualShares ==
    \A i \in 1..Size :
        /\ servers_obj.servers[i].percent = servers_obj.servers[1].percent
        /\ servers_obj.servers[i].percent > 0

\* C4: with equal positive shares, after k * n unpinned selections from the
\* initial state every server has been selected exactly k times.
C4_EqualShares ==
    (EqualShares /\ Total % Size = 0)
        => \A i \in 1..Size : servers_obj.servers[i].mails_sent = Total \div Size

\* C4 witness: three rounds on a registry of three equal servers
C4_Witness ==
    /\ EqualShares
    /\ Size = 3
    /\ Total = 9

\* C5: mx1 40, mx2 40, mx3 20: after 120,000 unpinned selections the counts
\* are 48000, 48000 and 24000, each to within 1.
C5_WeightedExample ==
    Total = 120000 =>
        /\ servers_obj.servers[1].mails_sent \in 47999..48001
        /\ servers_obj.servers[2].mails_sent \in 47999..48001
        /\ servers_obj.servers[3].mails_sent \in 23999..24001

\* C5 witness: the 120,000th selection was made
C5_Witness ==
    /\ Total = 120000
    /\ servers_obj.servers[1].percent = 40
    /\ servers_obj.servers[3].percent = 20

\* C6: a server with share 0 beside a server with a positive share gains a
\* selection only through a call whose identifier is its own name
C6_ZeroShareOnlyPinned ==
    [][ \A i \in 1..Size :
            ( /\ servers_obj.servers[i].percent = 0
              /\ ShareSum > 0
              /\ servers_obj'.servers[i].mails_sent # servers_obj.servers[i].mails_sent )
            => last_get_next'.mx_identifier = servers_obj.servers[i].name ]_vars

-----------------------------------------------------------------------------
(* Properties of the rule table *)

\* rule i of the table matches the last tested pair, as the specification
\* states it: key equals the email, or is inside the MX hostname, or inside the email
KeyMatches(i) ==
    LET key == config_dict.sender_rules[i].rule
        e   == last_rules_test.email
        h   == last_rules_test.domain
    IN  \/ key = e
        \/ \E a \in 1..Len(h) : \E b \in a..Len(h) : SubSeq(h, a, b) = key
        \/ \E a \in 1..Len(e) : \E b \in a..Len(e) : SubSeq(e, a, b) = key

MatchingRules == {i \in 1..Len(config_dict.sender_rules) : KeyMatches(i)}

DefaultRules ==
    {i \in 1..Len(config_dict.sender_rules) : config_dict.sender_rules[i].rule = Default}

\* C9: the result is the target of the first rule, in declaration order,
\* whose key equals the email or is a substring of the MX hostname or of the
\* email; when no rule matches it is the default rule's target, or none when
\* no default is declared.
C9_FirstMatchWins ==
    last_rules_test # NoRulesTest =>
        IF MatchingRules # {}
        THEN \E i \in MatchingRules :
                /\ \A j \in MatchingRules : i <= j
                /\ last_rules_test.result = config_dict.sender_rules[i].value
        ELSE IF DefaultRules # {}
        THEN \E i \in DefaultRules :
                last_rules_test.result = config_dict.sender_rules[i].value
        ELSE last_rules_test.result = PyFalse

\* C9 witness: two rules match the pair and the earlier one decided
C9_Witness ==
    /\ last_rules_test # NoRulesTest
    /\ Cardinality(MatchingRules) >= 2
    /\ \E i \in MatchingRules : \E j \in MatchingRules :
          /\ i < j
          /\ config_dict.sender_rules[i].value # config_dict.sender_rules[j].value
          /\ last_rules_test.result = config_dict.sender_rules[i].value

-----------------------------------------------------------------------------
(* Properties of the request path *)

\* this step handles a request (the clock stands still)
RequestStep == now' = now /\ last_request' # NoRequest

\* no registry changes in this step: no count, no cursor
RegistriesUnchanged == servers_obj' = servers_obj /\ server_groups' = server_groups

\* this step answers 500 NO RESULT
AnswersNoResult == last_request'.status = 500 /\ last_request'.message = NO_RESULT

\* C7: whatever target the default rule has, or with no default, a request
\* whose resolved target is "NO RESULT" is answered 500 NO RESULT and changes
\* no registry's count or cursor
C7_SentinelAnyDefault ==
    [][ (RequestStep /\ last_request'.mx_identifier = NO_RESULT)
            => (AnswersNoResult /\ RegistriesUnchanged) ]_vars

\* the line has the form get <local>@<domain>: the keyword in any case, white
\* space, one "@" with text on both sides
HasRequestForm(line) ==
    \E k \in 4..(Len(line) - 3) :
        /\ lower(SubSeq(line, 1, 3)) = <<"g", "e", "t">>
        /\ \A i \in 4..k : line[i] \in Whitespace
        /\ Cardinality({i \in (k + 1)..Len(line) : line[i] = "@"}) = 1
        /\ line[k + 1] # "@"
        /\ line[Len(line)] # "@"

\* C8: a request line other than the probe that has not the form
\* get <local>@<domain> is answered 500 NO RESULT, asks the resolver nothing
\* and changes no registry
C8_ParseFailureNoResult ==
    [][ ( /\ RequestStep
          /\ last_request'.request # <<"g", "e", "t", " ", "*">>
          /\ ~ HasRequestForm(last_request'.request) )
            => /\ AnswersNoResult
               /\ last_request'.resolved = <<>>
               /\ RegistriesUnchanged ]_vars

\* no rule of the table matches the email of this step's request, nor any of
\* the MX hostnames resolved for it
NoRuleMatched ==
    \A i \in 1..Len(config_dict.sender_rules) :
        LET key == config_dict.sender_rules[i].rule
        IN  /\ key # last_request'.email
            /\ ~ in(key, last_request'.email)
            /\ \A h \in 1..Len(last_request'.mx_records) :
                  ~ in(key, last_request'.mx_records[h])

\* this step makes one selection on the registry of group and on no other
SelectsInGroup(group) ==
    /\ last_request'.status = 200
    /\ servers_obj' = servers_obj
    /\ \A g \in DOMAIN server_groups :
          total_mails(server_groups'[g].servers)
            = total_mails(server_groups[g].servers) + (IF g = group THEN 1 ELSE 0)

\* C10: a parsed request for which no rule matched on any resolved MX
\* hostname, also when no hostname was resolved, is decided by the declared
\* default: 500 NO RESULT for the default "NO RESULT", a selection inside the
\* group for a default that names a group
C10_DefaultSubstitution ==
    [][ ( /\ RequestStep
          /\ last_request'.email # <<>>
          /\ last_request'.status # 400
          /\ NoRuleMatched )
            => \A i \in DefaultRules :
                  LET target == config_dict.sender_rules[i].value
                  IN  /\ target = NO_RESULT => (AnswersNoResult /\ RegistriesUnchanged)
                      /\ target \in DOMAIN server_groups => SelectsInGroup(target) ]_vars

-----------------------------------------------------------------------------
(* Properties of the loop over the MX hostnames *)

\* rule i of the table matches the pair (email, hostname)
RuleHits(i, email, hostname) ==
    LET key == config_dict.sender_rules[i].rule
    IN  \/ key = email
        \/ \E a \in 1..Len(hostname) : \E b \in a..Len(hostname) :
              SubSeq(hostname, a, b) = key
        \/ \E a \in 1..Len(email) : \E b \in a..Len(email) : SubSeq(email, a, b) = key

\* the target the rule table gives the pair: first rule that matches, else
\* the default, else none
TableTarget(email, hostname) ==
    LET hits == {i \in 1..Len(config_dict.sender_rules) : RuleHits(i, email, hostname)}
    IN  IF hits # {}
        THEN config_dict.sender_rules[CHOOSE i \in hits : \A j \in hits : i <= j].value
        ELSE IF DefaultRules # {}
        THEN config_dict.sender_rules[CHOOSE i \in DefaultRules : TRUE].value
        ELSE PyFalse

\* this step handles a request that parsed and whose resolution did not raise
ParsedStep ==
    /\ RequestStep
    /\ last_request'.email # <<>>
    /\ last_request'.status # 400

\* C11: the rule table is run on the resolved hostnames in resolver order and
\* stops at the first hostname that gives a target (a default counts): the
\* hostnames after it are not tested, the target of the request is the one of
\* the last hostname tested, and with a default declared only the first
\* hostname is tested
C11_HostnameOrder ==
    [][ ParsedStep =>
          LET t == last_request'.tested
              m == last_request'.mx_records
              e == last_request'.email
          IN  /\ Len(t) <= Len(m)
              /\ \A i \in 1..Len(t) : t[i] = m[i]
              /\ (m # <<>>) => (t # <<>>)
              /\ \A i \in 1..(Len(t) - 1) : TableTarget(e, m[i]) = PyFalse
              /\ Len(t) < Len(m) => TableTarget(e, m[Len(t)]) # PyFalse
              /\ (t # <<>>) => last_request'.mx_identifier = TableTarget(e, m[Len(t)])
              /\ (DefaultRules # {}) => Len(t) <= 1 ]_vars

\* C11 witness: a rule declared second decided on the first hostname, while
\* the rule declared first matches the second hostname, which was not tested
C11_Witness ==
    /\ Len(last_request.mx_records) = 2
    /\ Len(last_request.tested) = 1
    /\ RuleHits(2, last_request.email, last_request.mx_records[1])
    /\ ~ RuleHits(1, last_request.email, last_request.mx_records[1])
    /\ RuleHits(1, last_request.email, last_request.mx_records[2])
    /\ last_request.mx_identifier = config_dict.sender_rules[2].value
    /\ last_request.status = 200

-----------------------------------------------------------------------------
(* Properties of the connection threads *)

\* thread w has read the counts or the cursor of the registry for the call it
\* is in, and has not yet stored the count of the server it chose
InSelection(w) ==
    \/ workers[w].pc \in {"calc_perc", "scan", "chosen", "store"}
    \/ workers[w].pc = "count" /\ ~ workers[w].pinned

\* the calls of get_next the threads have completed
CallsCompleted ==
    LET done[n \in 0..MaxThreads] ==
            IF n = 0 THEN 0 ELSE done[n - 1] + workers[n].calls
    IN  done[MaxThreads]

\* C12: selections on one registry are serialized: no thread reads the counts
\* or the cursor while another thread is between its read of them and its
\* increment, and once every call has returned the counts of the registry
\* sum to the number of selections made
C12_SelectionsSerialized ==
    /\ \A v \in DOMAIN workers : \A w \in DOMAIN workers :
          (v # w) => ~ (InSelection(v) /\ InSelection(w))
    /\ (\A w \in DOMAIN workers : workers[w].pc = "idle")
          => total_mails(servers_obj.servers) = CallsCompleted

-----------------------------------------------------------------------------
(* Properties of the MX cache *)

\* this step handles a request that parsed, with caching enabled
LookupStep ==
    /\ RequestStep
    /\ last_request'.email # <<>>
    /\ cache_ttl > 0

\* the domain of the email of this step's request
LookupDomain ==
    LET e  == last_request'.email
        at == CHOOSE i \in 1..Len(e) : e[i] = "@"
    IN  SubSeq(e, at + 1, Len(e))

\* the entries the cache holds for the domain before this step
EntriesBefore == {entry \in mx_cache : entry.domain = LookupDomain}

\* the entries the cache holds for the domain after this step
EntriesAfter == {entry \in mx_cache' : entry.domain = LookupDomain}

\* this step answered from the cache: the resolver was not asked, the cache is as it was
AnsweredFromCache(entry) ==
    /\ last_request'.mx_records = entry.mx_records
    /\ last_request'.from_cache
    /\ last_request'.resolved = <<>>
    /\ mx_cache' = mx_cache

C14_NegativeCaching ==
    [][ LookupStep =>
          /\ last_request'.reply \in CaughtErrors =>
                /\ last_request'.mx_records = <<>>
                /\ ~ last_request'.from_cache
                /\ last_request'.status # 400
                /\ EntriesAfter = {[domain |-> LookupDomain, cache_time |-> now,
                                    mx_records |-> <<>>]}
          /\ \A entry \in EntriesBefore :
                (entry.mx_records = <<>> /\ now - entry.cache_time < cache_ttl)
                    => AnsweredFromCache(entry) ]_vars

\* C14 witness: a failure stored at an earlier second was answered from the cache
C14_Witness ==
    /\ last_request.from_cache
    /\ last_request.email # <<>>
    /\ last_request.mx_records = <<>>
    /\ \E entry \in mx_cache :
          /\ entry.mx_records = <<>>
          /\ entry.cache_time < now
          /\ now - entry.cache_time < cache_ttl

-----------------------------------------------------------------------------
(* Properties of error handling *)

\* C15: a request whose resolver call fails, in whatever way, is handled as
\* a request with no MX hostname: it is answered 200 or 500, never 400, and
\* the connection is not closed
C15_ResolutionFailuresAbsorbed ==
    [][ (RequestStep /\ last_request'.reply \notin {"", "answer"})
            => /\ last_request'.mx_records = <<>>
               /\ last_request'.status \in {200, 500}
               /\ ~ last_request'.closed ]_vars

-----------------------------------------------------------------------------
(* Properties of the registries *)

\* this step made a selection: a server address was answered
SelectionStep == RequestStep /\ last_request'.status = 200

\* the registry this step selected in, as get_server_group names it
SelectedGroup == get_server_group(last_request'.mx_identifier)

\* C16: a selection, pinned or not, counts one mail in exactly one registry,
\* the one get_server_group gives for the identifier, and leaves the counts
\* and the cursor of every other registry as they were; a server name that is
\* in several registries counts in that registry only, and a name that is no
\* group name counts in the fleet registry only
C16_RegistryIndependence ==
    [][ SelectionStep =>
          /\ IF SelectedGroup = PyFalse
             THEN total_mails(servers_obj'.servers)
                    = total_mails(servers_obj.servers) + 1
             ELSE servers_obj' = servers_obj
          /\ \A g \in DOMAIN server_groups :
                IF g = SelectedGroup
                THEN total_mails(server_groups'[g].servers)
                       = total_mails(server_groups[g].servers) + 1
                ELSE server_groups'[g] = server_groups[g]
          /\ last_get_next'.pinned =>
                /\ registry(SelectedGroup).current
                     = (IF SelectedGroup = PyFalse THEN servers_obj'
                        ELSE server_groups'[SelectedGroup]).current ]_vars

\* mx3 is pinned by its name, which is also a member of the group bad: the
\* mail is counted for the fleet's mx3 and not for the group's
C16_Witness ==
    /\ last_request.status = 200
    /\ last_request.mx_identifier = "mx3"
    /\ last_get_next.pinned
    /\ get(server_groups["bad"].servers, "mx3") # -1
    /\ servers_obj.servers[get(servers_obj.servers, "mx3") + 1].mails_sent = 1
    /\ server_groups["bad"].servers[get(server_groups["bad"].servers, "mx3") + 1].mails_sent = 0
    /\ total_mails(server_groups["good"].servers) = 1

\* the registries of the service: the fleet and each group
Registries == {servers_obj} \cup {server_groups[g] : g \in DOMAIN server_groups}

\* the sum of the configured shares of the servers of one registry
RECURSIVE share_sum(_)
share_sum(servers) ==
    IF servers = <<>> THEN 0 ELSE Head(servers).percent + share_sum(Tail(servers))

\* the sum of the perc_target of the servers of one registry, as a fraction
RECURSIVE target_sum(_)
target_sum(servers) ==
    IF servers = <<>> THEN <<0, 1>>
    ELSE <<Head(servers).perc_target[1] * target_sum(Tail(servers))[2]
             + target_sum(Tail(servers))[1] * Head(servers).perc_target[2],
           Head(servers).perc_target[2] * target_sum(Tail(servers))[2]>>

\* C17: in every registry whose shares sum to S > 0, at every moment, each
\* server's perc_target is its configured share divided by S, S being the sum
\* over the servers of that registry only, and the perc_target of the registry
\* sum to 1
C17_PerRegistryNormalization ==
    \A r \in Registries :
        share_sum(r.servers) > 0 =>
            /\ \A i \in 1..Len(r.servers) :
                  /\ r.servers[i].percent
                       = perc(names_value(config_dict.names, r.servers[i].name))
                  /\ r.servers[i].perc_target[2] > 0
                  /\ r.servers[i].perc_target[1] * share_sum(r.servers)
                       = r.servers[i].percent * r.servers[i].perc_target[2]
            /\ target_sum(r.servers)[1] = target_sum(r.servers)[2]

\* after all the mails of a run, mx2 has three different perc_target: 40/100 in
\* the fleet, 40/80 in the group good and 40/60 in the group bad
C17_Witness ==
    /\ AllMails = MaxMails
    /\ total_mails(server_groups["good"].servers) > 0
    /\ Less(servers_obj.servers[get(servers_obj.servers, "mx2") + 1].perc_target,
            server_groups["good"].servers[get(server_groups["good"].servers, "mx2") + 1].perc_target)
    /\ Less(server_groups["good"].servers[get(server_groups["good"].servers, "mx2") + 1].perc_target,
            server_groups["bad"].servers[get(server_groups["bad"].servers, "mx2") + 1].perc_target)

-----------------------------------------------------------------------------
(* Properties of the probe request *)

\* this step handles the request get *
ProbeStep == RequestStep /\ last_request'.request = <<"g", "e", "t", " ", "*">>

\* C18: the request get * is answered 500 NO RESULT under every configuration
\* and in every state of the registries and of the cache; no rule is tested,
\* no domain is looked up, and the cache, the counts and the cursors stay as
\* they were
C18_ProbeNoResult ==
    [][ ProbeStep =>
          /\ AnswersNoResult
          /\ ~ last_request'.closed
          /\ last_request'.resolved = <<>>
          /\ last_request'.tested = <<>>
          /\ mx_cache' = mx_cache
          /\ RegistriesUnchanged
          /\ last_get_next' = last_get_next ]_vars

\* the probe is answered after mails were counted and with a domain cached
C18_Witness ==
    /\ last_request.request = <<"g", "e", "t", " ", "*">>
    /\ last_request.status = 500
    /\ AllMails > 0
    /\ mx_cache # {}
    /\ servers_obj.current # -1

-----------------------------------------------------------------------------
(* Start-up: main calls config.load, outside any try, then serves *)

\* servers.names with mx3 given no share
NamesIdleThird == NamesWithPerc(<<40, 40, 0>>)

\* the configurations the service is started with: the sample, and the sample
\* made deficient in one way
StartConfigs ==
    { \* the sample
      [names |-> SampleNames, groups |-> SampleGroups, sender_rules |-> RulesNoDefault],
      \* the group bad has no member
      [names |-> SampleNames,
       groups |-> <<[name |-> "good", members |-> <<"mx1", "mx2">>],
                    [name |-> "bad", members |-> <<>>]>>,
       sender_rules |-> RulesNoDefault],
      [names |-> SampleNames,
       groups |-> <<[name |-> "good", members |-> <<"mx1", "mx2">>],
                    [name |-> "bad", members |-> <<>>]>>,
       sender_rules |-> RulesOverlap],
      \* the shares of the group bad sum to zero
      [names |-> NamesIdleThird,
       groups |-> <<[name |-> "good", members |-> <<"mx1", "mx2">>],
                    [name |-> "bad", members |-> <<"mx3">>]>>,
       sender_rules |-> RulesNoDefault],
      \* the shares of the fleet sum to zero
      [names |-> NamesWithPerc(<<0, 0>>),
       groups |-> <<[name |-> "good", members |-> <<>>],
                    [name |-> "bad", members |-> <<>>]>>,
       sender_rules |-> RulesNoDefault],
      \* the group bad names mx9, which servers.names does not declare
      [names |-> SampleNames,
       groups |-> <<[name |-> "good", members |-> <<"mx1", "mx2">>],
                    [name |-> "bad", members |-> <<"mx2", "mx9">>]>>,
       sender_rules |-> RulesNoDefault],
      \* no server at all
      [names |-> <<>>,
       groups |-> <<[name |-> "good", members |-> <<>>],
                    [name |-> "bad", members |-> <<>>]>>,
       sender_rules |-> RulesNoDefault] }

\* hasattr(self.config.servers.names, server_name)
names_has(names, server_name) ==
    \E i \in 1..Len(names) : names[i].name = server_name

\* Config.load, the body of the loop over the groups: the exception building
\* one group raises, empty for none
load_group_raises(names, members) ==
    IF \E i \in 1..Len(members) : ~ names_has(names, members[i])
    THEN "AttributeError"
    ELSE IF Servers_init_raises(server_group_dict(names, members))
    THEN "ZeroDivisionError"
    ELSE PyFalse

\* Config.load, the loop over the groups from group i on: the first exception
RECURSIVE load_groups_raise(_, _)
load_groups_raise(cfg, i) ==
    IF i > Len(cfg.groups) THEN PyFalse
    ELSE IF load_group_raises(cfg.names, cfg.groups[i].members) # PyFalse
    THEN load_group_raises(cfg.names, cfg.groups[i].members)
    ELSE load_groups_raise(cfg, i + 1)

\* Config.load: the exception it raises, empty for none
load_raises(cfg) ==
    IF Servers_init_raises(cfg.names) THEN "ZeroDivisionError"
    ELSE load_groups_raise(cfg, 1)

\* Config before load: no registry is built
NotLoaded == [servers |-> <<>>, current |-> -1]

InitStart ==
    /\ config_dict \in StartConfigs
    /\ servers_obj = NotLoaded
    /\ server_groups = NoGroups
    /\ mx_cache = {}
    /\ cache_ttl = 0
    /\ now = 0
    /\ last_request = NoRequest
    /\ last_get_next = NoCall
    /\ last_rules_test = NoRulesTest
    /\ workers = NoWorkers
    /\ service = "loading"

\* main: config.load(args.config); an exception it raises ends the process,
\* otherwise the socket is bound and connections are served
Load ==
    /\ service = "loading"
    /\ IF load_raises(config_dict) # PyFalse
       THEN /\ service' = "crashed"
            /\ UNCHANGED <<servers_obj, server_groups>>
       ELSE /\ service' = "serving"
            /\ servers_obj' = Servers_init(config_dict.names)
            /\ server_groups' = load_server_groups(config_dict)
    /\ UNCHANGED <<config_dict, mx_cache, cache_ttl, now, last_request,
                   last_get_next, last_rules_test, workers>>

NextStart == Load \/ Request

SpecStart == InitStart /\ [][NextStart]_vars

-----------------------------------------------------------------------------
(* Properties of deficient configurations *)

\* this step handles a request whose target is a declared group with no member
EmptyGroupStep ==
    /\ RequestStep
    /\ last_request'.mx_identifier \in DOMAIN server_groups
    /\ server_groups[last_request'.mx_identifier].servers = <<>>

\* C19: a request whose target is a declared group with no member is answered
\* 500 NO RESULT or 200 with a server of the fleet, never 400, keeps its
\* connection, and changes no registry except by a whole selection in the fleet
C19_EmptyGroupDegrades ==
    [][ EmptyGroupStep =>
          /\ ~ last_request'.closed
          /\ \/ AnswersNoResult /\ RegistriesUnchanged
             \/ /\ last_request'.status = 200
                /\ server_groups' = server_groups
                /\ total_mails(servers_obj'.servers)
                     = total_mails(servers_obj.servers) + 1 ]_vars

\* a registry of the configuration has servers whose shares sum to zero
ZeroSumRegistry(cfg) ==
    \/ Len(cfg.names) > 0 /\ percent_sum(cfg.names) = 0
    \/ \E i \in 1..Len(cfg.groups) :
          /\ Len(cfg.groups[i].members) > 0
          /\ \A k \in 1..Len(cfg.groups[i].members) :
                /\ names_has(cfg.names, cfg.groups[i].members[k])
                /\ perc(names_value(cfg.names, cfg.groups[i].members[k])) = 0

\* a group of the configuration names a server that is not declared
UndeclaredMember(cfg) ==
    \E i \in 1..Len(cfg.groups) : \E k \in 1..Len(cfg.groups[i].members) :
        ~ names_has(cfg.names, cfg.groups[i].members[k])

\* C20: start-up completes for a configuration with a zero-sum registry or
\* with a group that names an undeclared server: the registries are built and
\* the service reaches its serving state
C20_DeficientConfigLoads ==
    [][ (service = "loading" /\ service' # "loading"
            /\ (ZeroSumRegistry(config_dict) \/ UndeclaredMember(config_dict)))
          => service' = "serving" ]_vars

-----------------------------------------------------------------------------
(* Properties of the counts *)

\* no server of the registry before counts fewer mails in the registry after
NoCountLower(before, after) ==
    /\ Len(after.servers) = Len(before.servers)
    /\ \A i \in 1..Len(before.servers) :
          after.servers[i].mails_sent >= before.servers[i].mails_sent

\* C21: in every step, whatever the threads do, no server's mails_sent gets
\* lower, in the fleet registry or in a group registry
C21_SentCountMonotone ==
    [][ /\ NoCountLower(servers_obj, servers_obj')
        /\ \A g \in DOMAIN server_groups :
              NoCountLower(server_groups[g], server_groups'[g]) ]_vars

-----------------------------------------------------------------------------
(* Connections: main accepts connections and gives each to a handle_client   *)
(* thread; a turn of the loop of handle_client is taken as a whole           *)

Conns == 1..MaxConns

\* a byte that is no UTF-8
InvalidByte == "\\xff"

\* data.decode('utf-8') raises UnicodeDecodeError
decode_raises(data) == \E i \in 1..Len(data) : data[i] = InvalidByte

\* the data the connections receive
ConnData ==
    {<<"G", "E", "T", " ", " ", "U", "@", "E", "x", ".", "C", "o", "\n">>,
     <<"g", "e", "t", " ", "v", "@", "o", "t", ".", "i", "o">>,
     <<"g", "e", "t", " ", "*">>,
     <<"g", "e", "t", " ", InvalidByte, "@", "e", "x", ".", "c", "o">>}

\* a connection: pc is waiting (not accepted yet), open or closed; status is
\* the status of the last response the client received on it, 0 for none;
\* exit tells how handle_client left its loop
Conn(pc, status, exit) == [pc |-> pc, status |-> status, exit |-> exit]

InitConn ==
    /\ config_dict \in CacheConfigs
    /\ servers_obj = Servers_init(config_dict.names)
    /\ server_groups = load_server_groups(config_dict)
    /\ mx_cache = {}
    /\ cache_ttl = 0
    /\ now = 0
    /\ last_request = NoRequest
    /\ last_get_next = NoCall
    /\ last_rules_test = NoRulesTest
    /\ workers = [w \in Conns |-> Conn("waiting", 0, "")]
    /\ service = "serving"

\* main, lines 637-644: server.accept() and the start of the thread
Accept(w) ==
    /\ service = "serving"
    /\ workers[w].pc \in {"waiting", "closed"}
    /\ workers' = [workers EXCEPT ![w] = Conn("open", 0, "")]
    /\ UNCHANGED <<config_dict, servers_obj, server_groups, mx_cache, cache_ttl, now,
                   last_request, last_get_next, last_rules_test, service>>

\* handle_client, lines 546 and 553-563: data.decode raises; the outer except
\* clause sends 400 if the client still receives, and the connection is closed
ServeUndecoded(w, data, sends) ==
    /\ workers' = [workers EXCEPT ![w] =
          Conn("closed", IF sends THEN 400 ELSE 0, "exception")]
    /\ last_request' = [NoRequest EXCEPT !.request = data, !.status = 400,
                                         !.message = "UnicodeDecodeError",
                                         !.closed = TRUE]
    /\ UNCHANGED <<servers_obj, server_groups, mx_cache, last_get_next>>

\* handle_client, lines 546-552 and 553-566: the request is processed; sends
\* tells whether conn.sendall delivers or raises OSError (the client has gone)
ServeDecoded(w, data, reply, sends) ==
    \E r \in {process_request(strip(data), reply)} :
        /\ servers_obj' = r.servers_obj
        /\ server_groups' = r.server_groups
        /\ mx_cache' = r.mx_cache
        /\ last_get_next' = r.call
        /\ last_request' = [request |-> strip(data),
                            reply |-> IF r.resolved # <<>> THEN reply.kind ELSE "",
                            status |-> r.status,
                            message |-> r.message, resolved |-> r.resolved,
                            mx_records |-> r.mx_records,
                            from_cache |-> r.from_cache,
                            tested |-> r.tested, email |-> r.email,
                            mx_identifier |-> r.mx_identifier,
                            default |-> r.default, closed |-> r.closed \/ ~ sends]
        /\ workers' = [workers EXCEPT ![w] =
              IF r.closed \/ ~ sends
              THEN Conn("closed", IF sends THEN r.status ELSE 0, "exception")
              ELSE Conn("open", r.status, "")]

\* handle_client, one turn of its loop with data received
Serve(w) ==
    /\ workers[w].pc = "open"
    /\ AllMails < MaxMails
    /\ \E data \in ConnData : \E sends \in BOOLEAN :
          IF decode_raises(data)
          THEN ServeUndecoded(w, data, sends)
          ELSE \E reply \in RepliesFor(strip(data)) :
                  ServeDecoded(w, data, reply, sends)
    /\ UNCHANGED <<config_dict, cache_ttl, now, last_rules_test, service>>

\* handle_client, lines 541-544: recv returns no data, the client has closed
ClientClose(w) ==
    /\ workers[w].pc = "open"
    /\ workers' = [workers EXCEPT ![w] = Conn("closed", workers[w].status, "client")]
    /\ UNCHANGED <<config_dict, servers_obj, server_groups, mx_cache, cache_ttl, now,
                   last_request, last_get_next, last_rules_test, service>>

\* handle_client, lines 537-538 and 554-556: recv raises socket.timeout after
\* args.timeout seconds without data
Timeout(w) ==
    /\ workers[w].pc = "open"
    /\ workers' = [workers EXCEPT ![w] = Conn("closed", workers[w].status, "timeout")]
    /\ UNCHANGED <<config_dict, servers_obj, server_groups, mx_cache, cache_ttl, now,
                   last_request, last_get_next, last_rules_test, service>>

NextConn ==
    \E w \in Conns :
        \/ Accept(w)
        \/ Serve(w)
        \/ ClientClose(w)
        \/ Timeout(w)

SpecConn == InitConn /\ [][NextConn]_vars

-----------------------------------------------------------------------------
(* Properties of the connections *)

\* handle_client of connection w returns in this step
WorkerExits(w) == workers[w].pc = "open" /\ workers'[w].pc = "closed"

\* C22: when a worker leaves on an exception its client has received 400, and
\* whenever a worker leaves (exception, client close, timeout) the listener
\* still serves, every other connection is as it was, and the counts and
\* cursors are those from before the request that failed
C22_ErrorIsolation ==
    [][ \A w \in DOMAIN workers :
          WorkerExits(w) =>
              /\ (workers'[w].exit = "exception" => workers'[w].status = 400)
              /\ \A v \in DOMAIN workers : (v # w) => workers'[v] = workers[v]
              /\ service' = "serving"
              /\ RegistriesUnchanged ]_vars

-----------------------------------------------------------------------------
(* The sweep of the cache: jobs_thread calls cleanup_cache in its own thread *)
(* while the connection threads resolve domains; cleanup_cache first         *)
(* collects the expired keys, then deletes them                              *)

\* the jobs thread outside cleanup_cache
Sleeping == [pc |-> "sleep", expired_keys |-> {}]

InitSweep ==
    /\ config_dict \in CacheConfigs
    /\ servers_obj = Servers_init(config_dict.names)
    /\ server_groups = load_server_groups(config_dict)
    /\ mx_cache = {}
    /\ cache_ttl \in {0, LongTtl}
    /\ now = 0
    /\ last_request = NoRequest
    /\ last_get_next = NoCall
    /\ last_rules_test = NoRulesTest
    /\ workers = [jobs |-> Sleeping]
    /\ service = "serving"

\* cleanup_cache, lines 443-447: the domains whose entry is cache_ttl old or older
expired_keys ==
    {entry.domain : entry \in {e \in mx_cache : now - e.cache_time >= cache_ttl}}

\* cleanup_cache, lines 439-447: nothing to do with caching disabled, else the
\* expired keys are collected
CleanupIdentify ==
    /\ workers["jobs"].pc = "sleep"
    /\ workers' = IF cache_ttl <= 0 THEN workers
                  ELSE [jobs |-> [pc |-> "remove", expired_keys |-> expired_keys]]
    /\ UNCHANGED <<config_dict, servers_obj, server_groups, mx_cache, cache_ttl, now,
                   last_request, last_get_next, last_rules_test, service>>

\* cleanup_cache, lines 450-451: del mx_cache[domain] for each collected key
CleanupRemove ==
    /\ workers["jobs"].pc = "remove"
    /\ mx_cache' = {entry \in mx_cache : entry.domain \notin workers["jobs"].expired_keys}
    /\ workers' = [jobs |-> Sleeping]
    /\ UNCHANGED <<config_dict, servers_obj, server_groups, cache_ttl, now,
                   last_request, last_get_next, last_rules_test, service>>

NextSweep == Request \/ TickCache \/ CleanupIdentify \/ CleanupRemove

SpecSweep == InitSweep /\ [][NextSweep]_vars

-----------------------------------------------------------------------------
(* Properties of the sweep *)

\* the age of a cache entry
Age(entry) == now - entry.cache_time

\* C23: a sweep with cache_ttl > 0 marks every entry older than cache_ttl and
\* removes no entry younger than cache_ttl, so every domain a resolve would
\* answer from the cache before the sweep is answered from the cache, with
\* the same hostnames, after it; with cache_ttl <= 0 a sweep removes nothing
C23_SweepKeepsFresh ==
    [][ /\ (workers["jobs"].pc = "sleep" /\ workers'["jobs"].pc = "remove")
              => /\ \A entry \in mx_cache :
                       Age(entry) > cache_ttl
                          => entry.domain \in workers'["jobs"].expired_keys
                 /\ \A entry \in mx_cache :
                       Age(entry) < cache_ttl
                          => entry.domain \notin workers'["jobs"].expired_keys
        /\ (workers["jobs"].pc = "remove" /\ workers'["jobs"].pc = "sleep")
              => \A entry \in mx_cache :
                    Age(entry) < cache_ttl => entry \in mx_cache'
        /\ (cache_ttl <= 0 /\ now' = now /\ last_request' = last_request)
              => mx_cache' = mx_cache ]_vars

-----------------------------------------------------------------------------
(* The pattern router, src/postfix-mx-pattern-router.py: the original        *)
(* service, which answers with the relay of a pattern found in an MX         *)
(* hostname. Its get_mx_records and handle_client are those of the smart     *)
(* router, line for line.                                                    *)

\* the text of a sequence of characters
RECURSIVE join(_)
join(text) == IF text = <<>> THEN "" ELSE Head(text) \o join(Tail(text))

\* re.split(r'\s+', line, 1) for a stripped line: the text before the first
\* run of whitespace and the text after it, or the line alone
re_split_once(line) ==
    IF \E i \in 1..Len(line) : line[i] \in Whitespace
    THEN LET i == CHOOSE i \in 1..Len(line) :
                     /\ line[i] \in Whitespace
                     /\ \A j \in 1..(i - 1) : line[j] \notin Whitespace
         IN  <<SubSeq(line, 1, i - 1), lstrip(SubSeq(line, i, Len(line)))>>
    ELSE <<line>>

\* patterns[key] = relay on a dict kept as the sequence of its items: a key
\* already there keeps its place and takes the new relay
dict_set(patterns, key, relay) ==
    IF \E i \in 1..Len(patterns) : patterns[i].pattern = key
    THEN [i \in 1..Len(patterns) |->
            IF patterns[i].pattern = key
            THEN [pattern |-> key, relay |-> relay] ELSE patterns[i]]
    ELSE Append(patterns, [pattern |-> key, relay |-> relay])

\* load_patterns, the loop over the lines of the file
RECURSIVE load_patterns_from(_, _)
load_patterns_from(lines, patterns) ==
    IF lines = <<>> THEN patterns
    ELSE LET line  == strip(Head(lines))
             parts == re_split_once(line)
         IN  IF line = <<>> \/ Head(line) = "#" \/ Len(parts) # 2
             THEN load_patterns_from(Tail(lines), patterns)
             ELSE load_patterns_from(Tail(lines),
                                     dict_set(patterns, lower(parts[1]), parts[2]))

\* load_patterns(file_path), for a file that exists
load_patterns(lines) == load_patterns_from(lines, <<>>)

\* (mutant) the patterns are tried one after the other on all the hostnames
pattern_loop_by_pattern(patterns, mx_records) ==
    IF \E i \in 1..Len(patterns) : \E h \in 1..Len(mx_records) :
            in(patterns[i].pattern, mx_records[h])
    THEN patterns[CHOOSE i \in 1..Len(patterns) :
                    /\ \E h \in 1..Len(mx_records) : in(patterns[i].pattern, mx_records[h])
                    /\ \A j \in 1..(i - 1) : \A h \in 1..Len(mx_records) :
                          ~ in(patterns[j].pattern, mx_records[h])].relay
    ELSE PyFalse

\* for pattern, relay in patterns.items(): the relay of the first pattern
\* found in mx, False for none
RECURSIVE pattern_items_loop(_, _)
pattern_items_loop(patterns, mx) ==
    IF patterns = <<>> THEN PyFalse
    ELSE IF in(Head(patterns).pattern, mx) THEN Head(patterns).relay
    ELSE pattern_items_loop(Tail(patterns), mx)

\* for mx in mx_records: matched after the loops
RECURSIVE pattern_loop(_, _)
pattern_loop(patterns, mx_records) ==
    IF mx_records = <<>> THEN PyFalse
    ELSE IF pattern_items_loop(patterns, Head(mx_records)) # PyFalse
    THEN pattern_items_loop(patterns, Head(mx_records))
    ELSE pattern_loop(patterns, Tail(mx_records))

\* process_request of the pattern router once get_mx_records returned mx
pattern_respond(email, domain, mx) ==
    LET matched == IF mx.raised # PyFalse THEN PyFalse
                   ELSE pattern_loop(config_dict.patterns, mx.mx_records)
    IN  [status  |-> IF mx.raised # PyFalse THEN 400
                     ELSE IF matched # PyFalse THEN 200 ELSE 500,
         message |-> IF mx.raised # PyFalse THEN mx.raised
                     ELSE IF matched # PyFalse THEN join(matched) ELSE NO_RESULT,
         mx_cache |-> mx.mx_cache,
         resolved |-> IF mx.resolved THEN <<domain>> ELSE <<>>,
         mx_records |-> mx.mx_records, from_cache |-> mx.from_cache,
         email |-> email, closed |-> mx.raised # PyFalse]

\* process_request of the pattern router when no domain is looked up
pattern_no_result ==
    [status |-> 500, message |-> NO_RESULT, mx_cache |-> mx_cache, resolved |-> <<>>,
     mx_records |-> <<>>, from_cache |-> FALSE, email |-> <<>>, closed |-> FALSE]

\* process_request(request, conn, patterns, cache_ttl) of the pattern router
\* inside the try of handle_client
pattern_process_request(request, reply) ==
    IF request = <<"g", "e", "t", " ", "*">> THEN pattern_no_result
    ELSE IF re_match_email(request) = <<>> THEN pattern_no_result
    ELSE LET email == lower(re_match_email(request))
             parts == split(email, "@")
         IN  IF Len(parts) = 2
             THEN pattern_respond(email, parts[2], get_mx_records(parts[2], reply))
             ELSE pattern_no_result

\* pattern files: two patterns
PatternsPlain ==
    <<<<"m", "x", ".", " ", "r", "e", "l", "a", "y", ":", "a">>,
       <<"o", "t", ".", "i", "o", " ", "r", "e", "l", "a", "y", ":", "b">>>>

\* a comment, an empty line, a pattern in upper case before wide whitespace,
\* a line with no relay
PatternsMixed ==
    <<<<"#", " ", "r", "e", "l", "a", "y", "s">>,
       <<>>,
       <<"V", "I", "P", " ", " ", "	", "r", "e", "l", "a", "y", ":", "v">>,
       <<"i", "o", " ", "r", "e", "l", "a", "y", ":", "[", "i", "]", ":", "5", "8", "7", " ", "x">>,
       <<"l", "o", "n", "e">>>>

\* the pattern mx. is configured twice
PatternsTwice ==
    <<<<"m", "x", ".", " ", "r", "e", "l", "a", "y", ":", "a">>,
       <<"e", "x", ".", "c", "o", " ", "r", "e", "l", "a", "y", ":", "b">>,
       <<"M", "X", ".", " ", "r", "e", "l", "a", "y", ":", "c">>>>

PatternFiles == {PatternsPlain, PatternsMixed, PatternsTwice, <<>>}

\* main of the pattern router: patterns = load_patterns(args.config)
InitPattern ==
    /\ config_dict \in { [file |-> lines, patterns |-> load_patterns(lines)] :
                            lines \in PatternFiles }
    /\ servers_obj = NotLoaded
    /\ server_groups = NoGroups
    /\ mx_cache = {}
    /\ cache_ttl \in {0, CacheTtl}
    /\ now = 0
    /\ last_request = NoRequest
    /\ last_get_next = NoCall
    /\ last_rules_test = NoRulesTest
    /\ workers = NoWorkers
    /\ service = "serving"

\* the lines the pattern router receives
PatternData ==
    {<<"G", "E", "T", " ", " ", "U", "@", "E", "x", ".", "C", "o", "\n">>,
     <<"g", "e", "t", " ", "v", "@", "o", "t", ".", "i", "o">>,
     <<"g", "e", "t", " ", "u", "@", "n", "o", ".", "m", "x">>,
     <<"g", "e", "t", " ", "*">>,
     <<"g", "e", "t", " ", "a", "@", "b", "@", "c">>}

\* handle_client of the pattern router, one turn of its loop
PatternRequest ==
    /\ service = "serving"
    /\ \E data \in PatternData : \E reply \in RepliesFor(strip(data)) :
        \E r \in {pattern_process_request(strip(data), reply)} :
            /\ mx_cache' = r.mx_cache
            /\ last_request' = [request |-> strip(data),
                                reply |-> IF r.resolved # <<>> THEN reply.kind ELSE "",
                                status |-> r.status,
                                message |-> r.message, resolved |-> r.resolved,
                                mx_records |-> r.mx_records,
                                from_cache |-> r.from_cache,
                                tested |-> <<>>, email |-> r.email,
                                mx_identifier |-> PyFalse,
                                default |-> PyFalse, closed |-> r.closed]
            /\ UNCHANGED <<config_dict, servers_obj, server_groups, cache_ttl, now,
                           last_get_next, last_rules_test, workers, service>>

NextPattern == PatternRequest \/ Tick

SpecPattern == InitPattern /\ [][NextPattern]_vars

-----------------------------------------------------------------------------
(* Properties of the pattern router *)

\* the patterns found in the hostname
PatternsIn(hostname) ==
    {i \in 1..Len(config_dict.patterns) : in(config_dict.patterns[i].pattern, hostname)}

\* the hostnames of the answer of this step that hold a pattern
HostsWithPattern ==
    {h \in 1..Len(last_request'.mx_records) :
        PatternsIn(last_request'.mx_records[h]) # {}}

\* the least number of a non-empty set of numbers
Least(numbers) == CHOOSE n \in numbers : \A m \in numbers : n <= m

\* C24: a request get <email> whose domain was resolved is answered 200 with
\* the relay of the first pattern, in the order of the configuration, found
\* in the first MX hostname, in resolver order, that holds any pattern (a
\* pattern configured twice keeps its first place and its last relay); with
\* no such hostname, with no hostname at all, or when the request does not
\* parse, the answer is 500 NO RESULT
C24_PatternRouter ==
    [][ (RequestStep /\ last_request'.status # 400) =>
          IF last_request'.email # <<>> /\ HostsWithPattern # {}
          THEN /\ last_request'.status = 200
               /\ last_request'.message =
                     join(config_dict.patterns[
                            Least(PatternsIn(last_request'.mx_records[
                                                Least(HostsWithPattern)]))].relay)
          ELSE AnswersNoResult ]_vars

\* v@ot.io has the hostnames mail.ot.io and a.vip.io: the pattern vip comes
\* first in the file and is in the second hostname only, the pattern io comes
\* second and is in the first hostname; the answer is the relay of io
C24_Witness ==
    /\ config_dict.file = PatternsMixed
    /\ last_request.status = 200
    /\ Len(last_request.mx_records) = 2
    /\ PatternsIn(last_request.mx_records[1]) = {2}
    /\ PatternsIn(last_request.mx_records[2]) = {1, 2}
    /\ last_request.message = join(config_dict.patterns[2].relay)

-----------------------------------------------------------------------------
(* Properties of the cursor and of the shares over long runs *)

\* C25: after every unpinned selection, also one made after pinned
\* selections only, the count of the returned server and of no other has
\* grown by 1, and the cursor is the index of the returned server, within
\* 0..size-1
C25_CursorOnReturned ==
    [][ UnpinnedCall =>
          /\ servers_obj'.servers[last_get_next'.chosen_server + 1].mails_sent
               = servers_obj.servers[last_get_next'.chosen_server + 1].mails_sent + 1
          /\ OthersUnchanged(last_get_next'.chosen_server)
          /\ servers_obj'.current \in 0..(Size - 1)
          /\ servers_obj'.current = last_get_next'.chosen_server ]_vars

-----------------------------------------------------------------------------
(* The service with a rule key written in upper case *)

\* U@Ex.Co: mx3 / default: good
RulesUpperKey ==
    <<[rule |-> <<"U", "@", "E", "x", ".", "C", "o">>, value |-> "mx3"],
       [rule |-> <<"d", "e", "f", "a", "u", "l", "t">>, value |-> "good"]>>

CaseConfigs ==
    { [names |-> SampleNames, groups |-> SampleGroups, sender_rules |-> rules] :
        rules \in {RulesUpperKey} }

InitCase ==
    /\ config_dict \in CaseConfigs
    /\ servers_obj = Servers_init(config_dict.names)
    /\ server_groups = load_server_groups(config_dict)
    /\ mx_cache = {}
    /\ cache_ttl \in {0, CacheTtl}
    /\ now = 0
    /\ last_request = NoRequest
    /\ last_get_next = NoCall
    /\ last_rules_test = NoRulesTest
    /\ workers = NoWorkers
    /\ service = "serving"

SpecCase == InitCase /\ [][Next]_vars

-----------------------------------------------------------------------------
(* Properties of the exact-email check *)

\* the key of rule i is the email up to the case of its letters
KeyIsEmail(i, email) == lower(config_dict.sender_rules[i].rule) = email

\* C26: a rule whose key is the sender's email up to letter case matches that
\* sender by the exact-email check: when the rules are run for a request and
\* no rule before it matches, its target is the target of the request
C26_ExactEmailAnyCase ==
    [][ \A i \in 1..Len(config_dict.sender_rules) :
          ( /\ ParsedStep
            /\ last_request'.tested # <<>>
            /\ KeyIsEmail(i, last_request'.email)
            /\ \A j \in 1..(i - 1) :
                  /\ ~ KeyIsEmail(j, last_request'.email)
                  /\ ~ RuleHits(j, last_request'.email, last_request'.tested[1]) )
          => last_request'.mx_identifier = config_dict.sender_rules[i].value ]_vars

-----------------------------------------------------------------------------
(* Endless runs of unpinned selections. get_next reads the counts only in    *)
(* calc_perc and in the test mails_sent / total_mails < percent /            *)
(* percent_sum, and that test gives the same answer when every count is      *)
(* lowered by the server's share of one whole round (percent / gcd of the    *)
(* percentages) as long as some mail stays counted. The counts are kept      *)
(* lowered that way after each call, so that an endless run has finitely     *)
(* many states.                                                              *)

RECURSIVE gcd(_, _)
gcd(a, b) == IF b = 0 THEN a ELSE gcd(b, a % b)

\* the greatest common divisor of the percentages of the servers
RECURSIVE percent_gcd(_)
percent_gcd(servers) ==
    IF servers = <<>> THEN 0 ELSE gcd(Head(servers).percent, percent_gcd(Tail(servers)))

\* the mails of one whole round: every server counts percent / gcd of them
round_of(servers, i) == servers[i].percent \div percent_gcd(servers)

\* the mails all servers count in one whole round
RECURSIVE round_total(_, _)
round_total(servers, i) ==
    IF i > Len(servers) THEN 0 ELSE round_of(servers, i) + round_total(servers, i + 1)

\* the registry with whole rounds taken off the counts, while every server
\* has counted a whole round and a mail stays counted
RECURSIVE lowered(_)
lowered(self) ==
    IF /\ \A i \in 1..Len(self.servers) :
             self.servers[i].mails_sent >= round_of(self.servers, i)
       /\ total_mails(self.servers) > round_total(self.servers, 1)
    THEN lowered([self EXCEPT !.servers =
                    [i \in 1..Len(self.servers) |->
                        [self.servers[i] EXCEPT
                            !.mails_sent = @ - round_of(self.servers, i),
                            !.perc_current = <<0, 1>>]]])
    ELSE [self EXCEPT !.servers =
            [i \in 1..Len(self.servers) |->
                [self.servers[i] EXCEPT !.perc_current = <<0, 1>>]]]

\* the registry after each server was sent lead[i] mails by name: the counts
\* are lead, the cursor is untouched
led(self, lead) ==
    [self EXCEPT !.servers =
        [i \in 1..Len(self.servers) |->
            [self.servers[i] EXCEPT !.mails_sent = lead[i]]]]

\* the registries of the endless runs
FairShares == { <<50, 50>>, <<7, 7, 7>>, <<40, 40, 20>>, <<3, 1>>, <<100, 0>>,
                <<10, 30, 0>> }

InitFair ==
    /\ config_dict \in { ServersOnly(NamesWithPerc(shares)) : shares \in FairShares }
    /\ \E lead \in [1..Len(config_dict.names) -> 0..MaxLead] :
          servers_obj = lowered(led(Servers_init(config_dict.names), lead))
    /\ server_groups = NoGroups
    /\ mx_cache = {}
    /\ cache_ttl = 0
    /\ now = 0
    /\ last_request = NoRequest
    /\ last_get_next = NoCall @@ [since |-> [i \in 1..Len(config_dict.names) |-> 0]]
    /\ last_rules_test = NoRulesTest
    /\ workers = NoWorkers
    /\ service = "serving"

\* one call servers_obj.get_next(), the counts kept lowered; since[i] counts
\* the calls made since server i, of a positive share, was returned
GetNextEndless ==
    /\ \E r \in {get_next(servers_obj, PyFalse)} :
           /\ servers_obj' = lowered(r.self)
           /\ last_get_next' = [mx_identifier |-> PyFalse,
                                chosen_server |-> r.chosen_server,
                                pinned |-> r.pinned, found |-> r.found,
                                iteration |-> r.iteration,
                                since |-> [i \in 1..Len(servers_obj.servers) |->
                                             IF \/ i = r.chosen_server + 1
                                                \/ servers_obj.servers[i].percent = 0
                                             THEN 0
                                             ELSE last_get_next.since[i] + 1]]
    /\ UNCHANGED <<config_dict, server_groups, mx_cache, cache_ttl, now, last_request,
                   last_rules_test, workers, service>>

\* the caller goes on calling: a call that can be made is made
SpecFair == InitFair /\ [][GetNextEndless]_vars /\ WF_vars(GetNextEndless)

-----------------------------------------------------------------------------
(* Properties of endless runs *)

\* server i (1-based) of the registry has a positive share
HasShare(i) == i <= Size /\ servers_obj.servers[i].percent > 0

\* the calls within which server i is returned again: its lead and one mail
\* more, each worth ShareSum / percent mails of the registry
WaitBound(i) == ((MaxLead + 1) * ShareSum) \div servers_obj.servers[i].percent

\* server i never waits longer than WaitBound(i) calls to be returned
ReturnedWithin(i) == HasShare(i) => last_get_next.since[i] <= WaitBound(i)

\* C27: in an endless run of unpinned selections, from the initial state or
\* from a state in which servers were sent mails by name, every server with a
\* positive share is returned again and again, each time within finitely many
\* further selections
C27_NoStarvation ==
    /\ [](\A i \in 1..Len(ServerNames) : ReturnedWithin(i))
    /\ \A i \in 1..Len(ServerNames) :
          []<>(HasShare(i) => last_get_next.chosen_server = i - 1)

\* mx3, with the smallest share of three, is returned by the scan while it
\* has counted fewer mails than the others
C27_Witness ==
    /\ Size = 3
    /\ servers_obj.servers[3].percent = 20
    /\ last_get_next.chosen_server = 2
    /\ last_get_next.found
    /\ servers_obj.servers[3].mails_sent < servers_obj.servers[1].mails_sent
    /\ servers_obj.current = 2

-----------------------------------------------------------------------------
(* Overshoot of sequential unpinned runs *)

\* server i (1-based) is less than one mail ahead of its share of the total
WithinAMail(i) ==
    servers_obj.servers[i].mails_sent * ShareSum
        < servers_obj.servers[i].percent * Total + ShareSum

\* every server's share of the total is a whole number of mails
WholeShares == \A i \in 1..Size : (servers_obj.servers[i].percent * Total) % ShareSum = 0

\* C28: in a run of sequential unpinned selections on a registry of a positive
\* share sum S, after every selection mails_sent * S < percent * total + S for
\* every server, and the counts are percent * total / S whenever these are all
\* whole
C28_BoundedOvershoot ==
    (servers_obj # NotLoaded /\ ShareSum > 0 /\ last_get_next # NoCall) =>
        /\ \A i \in 1..Size : WithinAMail(i)
        /\ WholeShares =>
              \A i \in 1..Size :
                  servers_obj.servers[i].mails_sent
                      = (servers_obj.servers[i].percent * Total) \div ShareSum

\* after ten selections on mx1 40, mx2 40, mx3 20 the fallback has returned
\* the server of the cursor a second time: the counts are 5, 4, 2 with mx1
\* ahead of its share by less than a mail
C28_Witness ==
    /\ Size = 3
    /\ ShareSum = 100
    /\ servers_obj.servers[3].percent = 20
    /\ Total > 10
    /\ ~ last_get_next.found
    /\ ~ WholeShares
    /\ \E i \in 1..Size :
          servers_obj.servers[i].mails_sent * ShareSum
              > servers_obj.servers[i].percent * Total

====
